---- MODULE Spec2Model ----
(***************************************************************************)
(* A model of flow-cli's hook-configuration editor (HookParser and the     *)
(* tool-facing setHook / removeHook) and of its event reporters            *)
(* (ReporterRegistry, BufferReporter, WebSocketReporter, HttpReporter),    *)
(* of the server's event loop and of the login wait.                       *)
(*                                                                         *)
(* A settings document is modelled by its "hooks" mapping: a function from *)
(* the event names present to either Null (JSON null) or List(entries), a  *)
(* sequence of groups.  A group is a record [matcher, hooks, flow];        *)
(* matcher = None                                                          *)
(* stands for a group without the "matcher" key, flow = NoFlow for a group *)
(* without the "flow" block.  A hook is a record [type, command].  A       *)
(* command string is a sequence of tokens (words and the separators " "    *)
(* and "/"), so that the string tests of _is_flow_command are computed.    *)
(***************************************************************************)
EXTENDS Integers, Sequences, FiniteSets, TLC

VARIABLES
    settings_data,  \* HookParser.settings_data["hooks"] of the parser being edited
    file,           \* content of the settings file on disk
    last,           \* the last operation: its name, arguments, result and pre-state
    scope,          \* the ClaudeScope the tool-facing calls are made with
    repo_root,      \* CLIContext.repo_root: the repository root, or None outside one
    reporters,      \* ReporterRegistry._reporters
    rpc,            \* report_all: "idle", "running" or "done"
    ridx,           \* report_all: number of items the list iterator has yielded
    revent,         \* report_all: the event being delivered
    called,         \* the sinks whose report() the running call has invoked, in order
    raisedIn,       \* the sinks whose report() raised during the running call
    escaped,        \* an exception left the running call
    modified,       \* the registry was changed since the last call started
    rlast,          \* the last membership call on the registry and the list before it
    delivered,      \* the events the running call has passed to the sinks, in order
    arrived,        \* report_hook: the event data as the request carried it
    rkept,          \* the sinks registered since the running call started
    buffer,         \* BufferReporter._buffer
    max_size,       \* BufferReporter._max_size
    lock,           \* BufferReporter._lock: the thread holding it, or NoThread
    tpc,            \* per thread, its position inside a BufferReporter method
    targ,           \* per thread, the event it is reporting
    tret,           \* per thread, what its last completed call returned
    reported,       \* the events appended since construction or the last clear()
    nreports,       \* number of report() calls started
    held,           \* per thread, the list object its last get_recent returned
    connections,    \* WebSocketReporter._connections
    wpc,            \* WebSocketReporter.report: "idle", "sending" or "done"
    widx,           \* report: number of items the list iterator has yielded
    wevent,         \* report: the event being broadcast
    disconnected,   \* report: its local list of connections whose send raised
    attempted,      \* the sends the running pass has made: connection and envelope
    wfailed,        \* the connections whose send raised during the running pass
    wstart,         \* the connections when the running pass started
    wraised,        \* an exception left report
    hs,             \* per connection, the position of its websocket_hooks handler
    hist,           \* per connection, the handler's initial_outputs
    initials,       \* per connection, the envelopes send_initial pushed to it
    retry_count,    \* HttpReporter._retry_count
    hpc,            \* HttpReporter.report: "idle", "posting" or "done"
    hattempt,       \* report: the number of turns of its for loop so far
    hlog,           \* the outcomes of the POSTs the running call has made, in order
    hraised,        \* an exception left report
    login,          \* the login flag and result, the waiter and the post_login handler
    savers,         \* the settings file as text, and the processes that load, edit and save it
    srv,            \* the server's event loop: report_all calls and websocket handlers
    others          \* the top-level settings other than "hooks": on disk and in the parser

hookVars == <<settings_data, file, last, scope, repo_root>>
regVars == <<reporters, rpc, ridx, revent, called, raisedIn, escaped, modified, rlast,
             delivered, arrived, rkept>>
bufVars == <<buffer, max_size, lock, tpc, targ, tret, reported, nreports, held>>
wsVars == <<connections, wpc, widx, wevent, disconnected, attempted, wfailed, wstart,
            wraised, hs, hist, initials>>
httpVars == <<retry_count, hpc, hattempt, hlog, hraised>>
moreVars == <<login, savers, srv, others>>
sinkVars == <<wsVars, httpVars, moreVars>>
vars == <<settings_data, file, last, scope, repo_root, reporters, rpc, ridx, revent, called,
          raisedIn, escaped, modified, rlast, delivered, arrived, rkept, buffer, max_size, lock, tpc, targ, tret,
          reported, nreports, held, sinkVars>>

----------------------------------------------------------------------------
(* Values *)

None == "None"
NoFlow == "no-flow"
NoCommand == <<>>

\* The value of an event key: JSON null, or a list of groups.
Null == [null |-> TRUE, entries |-> <<>>]
List(entries) == [null |-> FALSE, entries |-> entries]

\* Bound: at most this many hook commands in one settings document.
MaxHooks == 3

\* The event the operations are applied to, and a second event of the document.
Events == {"PreToolUse"}
OtherEvent == "Stop"
Matchers == {"*"}
MatcherArgs == Matchers \cup {None}
\* The empty string as a matcher value, and the matcher arguments with it.
EmptyMatcher == ""
FreshMatchers == MatcherArgs \cup {EmptyMatcher}
Metas == {"flow-meta"}
FlowArgs == Metas \cup {NoFlow}

FlowPing == <<"flow", " ", "ping">>
EchoX == <<"echo", " ", "x">>
Commands == {FlowPing, EchoX}

HookObj(hook_type, command) == [type |-> hook_type, command |-> command]
HookObjs == {HookObj("command", c) : c \in Commands}

EmptyHooks == [e \in {} |-> Null]

----------------------------------------------------------------------------
(* Helpers on documents *)

Range(s) == {s[i] : i \in 1..Len(s)}

RECURSIVE SumLens(_)
SumLens(entries) ==
    IF entries = <<>> THEN 0
    ELSE Len(Head(entries).hooks) + SumLens(Tail(entries))

RECURSIVE TotalHooksOver(_, _)
TotalHooksOver(hooks, evs) ==
    IF evs = {} THEN 0
    ELSE LET e == CHOOSE x \in evs : TRUE
         IN SumLens(hooks[e].entries) + TotalHooksOver(hooks, evs \ {e})

TotalHooks(hooks) == TotalHooksOver(hooks, DOMAIN hooks)

\* list.remove drops the first occurrence.
RECURSIVE RemoveFirst(_, _)
RemoveFirst(rs, s) ==
    IF rs = <<>> THEN <<>>
    ELSE IF Head(rs) = s THEN Tail(rs)
    ELSE <<Head(rs)>> \o RemoveFirst(Tail(rs), s)

DelKey(hooks, e) == [x \in (DOMAIN hooks) \ {e} |-> hooks[x]]
SetKey(hooks, e, v) == [x \in (DOMAIN hooks) \cup {e} |-> IF x = e THEN v ELSE hooks[x]]

\* Index of the first element of s satisfying Test, 0 if none.
FirstIndex(s, Test(_)) ==
    IF \E i \in 1..Len(s) : Test(s[i])
    THEN CHOOSE i \in 1..Len(s) : Test(s[i]) /\ \A j \in 1..(i - 1) : ~Test(s[j])
    ELSE 0

----------------------------------------------------------------------------
(* HookParser: the editor operations, as functions of the "hooks" mapping. *)
(* Each returns [hooks |-> the mapping afterwards, ret |-> the result];    *)
(* ret = "TypeError" when the Python code raises (iterating a null event). *)

Result(hooks, ret) == [hooks |-> hooks, ret |-> ret]
Bool(b) == IF b THEN "True" ELSE "False"

\* if matcher: / if flow_metadata:  (None and the empty value are falsy)
Truthy(x) == x \notin {None, "", NoFlow}
\* if command:
TruthyCommand(command) == command # NoCommand

is_flow_managed(entry) == entry.flow # NoFlow

\* add_hook, matcher is None: the entry the loop at lines 148-156 breaks on.
SameOwnershipNoMatcher(entry, flow_metadata) ==
    /\ entry.matcher = None
    /\ \/ Truthy(flow_metadata) /\ is_flow_managed(entry)
       \/ ~Truthy(flow_metadata) /\ ~is_flow_managed(entry)

\* add_hook, matcher given: the entry the loop at lines 175-178 breaks on.
SameMatcher(entry, matcher) == entry.matcher = matcher

FindEntry(entries, matcher, flow_metadata) ==
    IF matcher = None
    THEN FirstIndex(entries, LAMBDA g : SameOwnershipNoMatcher(g, flow_metadata))
    ELSE FirstIndex(entries, LAMBDA g : SameMatcher(g, matcher))

\* Mutant of AppendToEntry: the new hook replaces the group's hooks.
ReplaceInEntry(entry, hook_obj, flow_metadata) ==
    [matcher |-> entry.matcher,
     hooks |-> <<hook_obj>>,
     flow |-> IF Truthy(flow_metadata) THEN flow_metadata ELSE entry.flow]

\* matcher_entry["hooks"].append(hook_obj), then the metadata update.
AppendToEntry(entry, hook_obj, flow_metadata) ==
    [matcher |-> entry.matcher,
     hooks |-> Append(entry.hooks, hook_obj),
     flow |-> IF Truthy(flow_metadata) THEN flow_metadata ELSE entry.flow]

NewEntry(matcher, hook_obj, flow_metadata) ==
    [matcher |-> matcher,
     hooks |-> <<hook_obj>>,
     flow |-> IF Truthy(flow_metadata) THEN flow_metadata ELSE NoFlow]

add_hook(hooks, event_name, matcher, hook_type, command, flow_metadata) ==
    LET h1 == IF event_name \notin DOMAIN hooks
              THEN SetKey(hooks, event_name, List(<<>>)) ELSE hooks
        hook_obj == HookObj(hook_type, command)
    IN IF h1[event_name].null THEN Result(hooks, "TypeError")
       ELSE LET entries == h1[event_name].entries
                i == FindEntry(entries, matcher, flow_metadata)
                new == IF i # 0
                       THEN [entries EXCEPT
                                ![i] = AppendToEntry(entries[i], hook_obj, flow_metadata)]
                       ELSE Append(entries, NewEntry(matcher, hook_obj, flow_metadata))
            IN Result(SetKey(h1, event_name, List(new)), "None")

\* Mutant of PruneEvent: the emptied event is kept.
NoPrune(hooks, event_name) == hooks

\* Clean up empty event entries (lines 241-243, 402-404): "if not hooks[event]".
PruneEvent(hooks, event_name) ==
    IF hooks[event_name].null \/ hooks[event_name].entries = <<>>
    THEN DelKey(hooks, event_name) ELSE hooks

\* Mutant of StripCommand: only the first hook with the command is removed.
StripFirstCommand(entry, command) ==
    LET i == FirstIndex(entry.hooks, LAMBDA h : h.command = command)
    IN [matcher |-> entry.matcher,
        hooks |-> IF i = 0 THEN entry.hooks
                  ELSE SubSeq(entry.hooks, 1, i - 1) \o SubSeq(entry.hooks, i + 1, Len(entry.hooks)),
        flow |-> entry.flow]

StripCommand(entry, command) ==
    [matcher |-> entry.matcher,
     hooks |-> SelectSeq(entry.hooks, LAMBDA h : h.command # command),
     flow |-> entry.flow]

remove_hook(hooks, event_name, matcher, command) ==
    IF event_name \notin DOMAIN hooks THEN Result(hooks, "False")
    ELSE LET event_hooks == hooks[event_name].entries IN
      IF Truthy(matcher) THEN
        IF hooks[event_name].null THEN Result(hooks, "TypeError")
        ELSE LET kept == SelectSeq(event_hooks, LAMBDA g : g.matcher # matcher)
             IN Result(PruneEvent(SetKey(hooks, event_name, List(kept)), event_name),
                       Bool(Len(kept) < Len(event_hooks)))
      ELSE IF TruthyCommand(command) THEN
        IF hooks[event_name].null THEN Result(hooks, "TypeError")
        ELSE LET stripped == [i \in 1..Len(event_hooks) |->
                                 StripCommand(event_hooks[i], command)]
                 kept == SelectSeq(stripped, LAMBDA g : g.hooks # <<>>)
                 removed == \E i \in 1..Len(event_hooks) :
                                Len(stripped[i].hooks) < Len(event_hooks[i].hooks)
             IN Result(PruneEvent(SetKey(hooks, event_name, List(kept)), event_name),
                       Bool(removed))
      ELSE Result(PruneEvent(hooks, event_name), "False")

\* Returns [status, hooks]: status "None" (not found), "TypeError" or "found".
get_hook_details(hooks, event_name, matcher) ==
    IF event_name \notin DOMAIN hooks THEN [status |-> "None", hooks |-> <<>>]
    ELSE IF hooks[event_name].null THEN [status |-> "TypeError", hooks |-> <<>>]
    ELSE LET entries == hooks[event_name].entries
             i == FirstIndex(entries, LAMBDA g : g.matcher = matcher)
         IN IF i = 0 THEN [status |-> "None", hooks |-> <<>>]
            ELSE [status |-> "found", hooks |-> entries[i].hooks]

\* [entry.get("matcher", "") for entry in ...]; "TypeError" on a null event.
list_matchers(hooks, event_name) ==
    IF event_name \notin DOMAIN hooks THEN [status |-> "list", matchers |-> <<>>]
    ELSE IF hooks[event_name].null THEN [status |-> "TypeError", matchers |-> <<>>]
    ELSE LET entries == hooks[event_name].entries
         IN [status |-> "list",
             matchers |-> [i \in 1..Len(entries) |->
                              IF entries[i].matcher = None THEN "" ELSE entries[i].matcher]]

clear_event(hooks, event_name) ==
    IF event_name \in DOMAIN hooks THEN Result(DelKey(hooks, event_name), "True")
    ELSE Result(hooks, "False")

\* update_matcher: the first group of the event whose matcher is old_matcher
\* gets new_matcher.
update_matcher(hooks, event_name, old_matcher, new_matcher) ==
    IF event_name \notin DOMAIN hooks THEN Result(hooks, "False")
    ELSE IF hooks[event_name].null THEN Result(hooks, "TypeError")
    ELSE LET entries == hooks[event_name].entries
             hits == {i \in 1..Len(entries) : entries[i].matcher = old_matcher}
         IN IF hits = {} THEN Result(hooks, "False")
            ELSE LET i == CHOOSE j \in hits : \A k \in hits : j <= k
                 IN Result(SetKey(hooks, event_name,
                                  List([entries EXCEPT ![i].matcher = new_matcher])),
                           "True")

\* clear_all: self.settings_data["hooks"] = {}
clear_all(hooks) == Result(EmptyHooks, "None")

\* Mutant of FlowHookToRemove: the filter without the ownership test.
AnyHookToRemove(entry, matcher) ==
    IF matcher # None THEN entry.matcher = matcher ELSE TRUE

\* The entries remove_flow_hooks filters out (lines 389-398).
FlowHookToRemove(entry, matcher) ==
    IF matcher # None
    THEN is_flow_managed(entry) /\ entry.matcher = matcher
    ELSE is_flow_managed(entry)

remove_flow_hooks(hooks, event_name, matcher) ==
    IF event_name \notin DOMAIN hooks THEN Result(hooks, "False")
    ELSE IF hooks[event_name].null THEN Result(hooks, "False")
    ELSE LET event_hooks == hooks[event_name].entries
             kept == SelectSeq(event_hooks, LAMBDA g : ~FlowHookToRemove(g, matcher))
         IN Result(PruneEvent(SetKey(hooks, event_name, List(kept)), event_name),
                   Bool(Len(kept) < Len(event_hooks)))

----------------------------------------------------------------------------
(* The settings file: [kind, hooks].  kind is "absent" (no file),          *)
(* "malformed" (text that is not JSON), "undecodable" (bytes that are not  *)
(* UTF-8 text), "not-object" (JSON whose top level is not an object),      *)
(* "no-hooks-key" (a JSON object without "hooks") or "json"; for "json",   *)
(* hooks is the written "hooks" object: per event null or an array of      *)
(* objects holding exactly the keys the group has.                         *)

AbsentFile == [kind |-> "absent", hooks |-> EmptyHooks]
MalformedFile == [kind |-> "malformed", hooks |-> EmptyHooks]
UndecodableFile == [kind |-> "undecodable", hooks |-> EmptyHooks]
NotObjectFile == [kind |-> "not-object", hooks |-> EmptyHooks]
NoHooksKeyFile == [kind |-> "no-hooks-key", hooks |-> EmptyHooks]

\* The keys of the dict of a group: "matcher" and "flow" only when it has them.
EntryKeys(entry) ==
    {"hooks"} \cup (IF entry.matcher # None THEN {"matcher"} ELSE {})
              \cup (IF entry.flow # NoFlow THEN {"flow"} ELSE {})

\* json.dump of a group.
DumpEntry(entry) ==
    [k \in EntryKeys(entry) |->
        IF k = "hooks" THEN entry.hooks
        ELSE IF k = "matcher" THEN entry.matcher ELSE entry.flow]

\* json.dump of the "hooks" mapping.
json_dump(hooks) ==
    [e \in DOMAIN hooks |->
        IF hooks[e].null THEN Null
        ELSE List([i \in 1..Len(hooks[e].entries) |-> DumpEntry(hooks[e].entries[i])])]

\* Mutant of LoadEntry: a group without "matcher" is read as matcher "".
LoadEntryDefaultMatcher(obj) ==
    [matcher |-> IF "matcher" \in DOMAIN obj THEN obj["matcher"] ELSE "",
     hooks |-> obj["hooks"],
     flow |-> IF "flow" \in DOMAIN obj THEN obj["flow"] ELSE NoFlow]

\* A group as the editor reads it from the loaded dict: entry.get("matcher"),
\* entry["hooks"], "flow" in entry.
LoadEntry(obj) ==
    [matcher |-> IF "matcher" \in DOMAIN obj THEN obj["matcher"] ELSE None,
     hooks |-> obj["hooks"],
     flow |-> IF "flow" \in DOMAIN obj THEN obj["flow"] ELSE NoFlow]

\* json.load of the "hooks" object of a file.
json_load(text) ==
    [e \in DOMAIN text |->
        IF text[e].null THEN Null
        ELSE List([i \in 1..Len(text[e].entries) |-> LoadEntry(text[e].entries[i])])]

JsonFile(hooks) == [kind |-> "json", hooks |-> json_dump(hooks)]

\* What _load_settings raises on file f: only json.JSONDecodeError is caught.
LoadError(f) ==
    IF f.kind = "undecodable" THEN "UnicodeDecodeError"
    ELSE IF f.kind = "not-object" THEN "TypeError"
    ELSE "None"

\* HookParser._load_settings: the "hooks" mapping of settings_data (for a
\* file on which it does not raise).
LoadSettings(f) == IF f.kind = "json" THEN json_load(f.hooks) ELSE EmptyHooks

\* Mutant of StripNull: the document is written as it is.
StripNothing(hooks) == hooks

\* save_hooks drops the events whose value is null, then writes the document.
StripNull(hooks) == [e \in {x \in DOMAIN hooks : ~hooks[x].null} |-> hooks[e]]
save_hooks(hooks) == JsonFile(StripNull(hooks))

\* Whether token tok contains the string sub.
Contains(tok, sub) ==
    <<tok, sub>> \in {<<"flow", "flow">>,
                      <<"flow_cli.py", "flow">>,
                      <<"flow_cli.py", "flow_cli.py">>,
                      <<"flow_prompt_hook.py", "flow">>,
                      <<"flow_prompt_hook.py", "flow_prompt_hook.py">>,
                      <<"workflow.sh", "flow">>}

AnyContains(tokens, sub) == \E i \in 1..Len(tokens) : Contains(tokens[i], sub)

\* command.strip()
RECURSIVE Strip(_)
Strip(tokens) ==
    IF tokens # <<>> /\ Head(tokens) = " " THEN Strip(Tail(tokens))
    ELSE IF tokens # <<>> /\ tokens[Len(tokens)] = " "
    THEN Strip(SubSeq(tokens, 1, Len(tokens) - 1))
    ELSE tokens

\* command.split("/")[-1]
LastSegment(tokens) ==
    LET slashes == {i \in 1..Len(tokens) : tokens[i] = "/"}
        from == IF slashes = {} THEN 0
                ELSE CHOOSE i \in slashes : \A j \in slashes : j <= i
    IN SubSeq(tokens, from + 1, Len(tokens))

_is_flow_command(command) ==
    LET stripped == Strip(command)
    IN \/ Len(stripped) >= 2 /\ stripped[1] = "flow" /\ stripped[2] = " "
       \/ AnyContains(command, "flow_cli.py")
       \/ /\ command # <<>> /\ Head(command) = "/"
          /\ \/ AnyContains(command, "flow_prompt_hook.py")
             \/ AnyContains(LastSegment(command), "flow")

\* removeHook's loop over the hooks get_hook_details returned (lines 104-120).
\* acc is [hooks, removed_any, exc].
RECURSIVE RemoveLoop(_, _, _, _)
RemoveLoop(acc, todo, event_name, matcher) ==
    IF todo = <<>> \/ acc.exc THEN acc
    ELSE LET hook_command == Head(todo).command
             r == remove_hook(acc.hooks, event_name, matcher, hook_command)
             next == IF ~_is_flow_command(hook_command) THEN acc
                     ELSE [hooks |-> r.hooks,
                           removed_any |-> acc.removed_any \/ r.ret = "True",
                           exc |-> r.ret = "TypeError"]
         IN RemoveLoop(next, Tail(todo), event_name, matcher)

Scopes == {"USER", "PROJECT", "LOCAL"}
RepoRoot == "repo"

\* CLIContext.get_claude_settings_path: "path" when it returns the path of
\* the scope's settings file, else the exception it raises.
get_claude_settings_path(sc, root) ==
    IF sc = "USER" THEN "path"
    ELSE IF root = None THEN "ValueError" ELSE "path"

\* What the file system does during a call: nothing special, open() for
\* reading raises OSError, mkdir() / open() for writing raises OSError, or
\* open() for writing has truncated the file and json.dump or the close of
\* the file raises OSError (disk full, file size limit): the file is left
\* with a proper prefix of the document, which is not valid JSON.
IOOutcomes == {"ok", "read-error", "write-error", "dump-error"}

\* HookParser(context=context, scope=scope) raises: "None" when it does not.
ParserError(sc, root, io, f) ==
    IF get_claude_settings_path(sc, root) # "path" THEN "ValueError"
    ELSE IF io = "read-error" /\ f.kind # "absent" THEN "OSError"
    ELSE LoadError(f)

\* Tool-facing operations: [file |-> the file afterwards, ret |-> result].
removeHook(sc, root, io, f, event_name, matcher) ==
    IF ParserError(sc, root, io, f) # "None" THEN [file |-> f, ret |-> "False"]
    ELSE
    LET hooks == LoadSettings(f)
        d == get_hook_details(hooks, event_name, matcher)
    IN IF d.status = "TypeError" THEN [file |-> f, ret |-> "False"]
       ELSE IF d.status # "found" \/ d.hooks = <<>> THEN [file |-> f, ret |-> "False"]
       ELSE LET acc == RemoveLoop([hooks |-> hooks, removed_any |-> FALSE, exc |-> FALSE],
                                  d.hooks, event_name, matcher)
            IN IF acc.exc THEN [file |-> f, ret |-> "False"]
               ELSE IF acc.removed_any
               THEN IF io = "write-error" THEN [file |-> f, ret |-> "False"]
                    ELSE IF io = "dump-error" THEN [file |-> MalformedFile, ret |-> "False"]
                    ELSE [file |-> save_hooks(acc.hooks), ret |-> "True"]
               ELSE [file |-> f, ret |-> "False"]

\* setHook as declared (scope, event_name, matcher, cmd, context): a call that
\* passes flow_metadata=..., as hooks_set does, raises TypeError at the call.
setHook(sc, root, io, f, event_name, matcher, cmd, flow_metadata) ==
    IF flow_metadata # NoFlow THEN [file |-> f, ret |-> "TypeError"]
    ELSE IF ParserError(sc, root, io, f) # "None" THEN [file |-> f, ret |-> "False"]
    ELSE LET r == add_hook(LoadSettings(f), event_name, matcher, "command", cmd, NoFlow)
         IN IF r.ret = "TypeError" THEN [file |-> f, ret |-> "False"]
            ELSE IF io = "write-error" THEN [file |-> f, ret |-> "False"]
            ELSE IF io = "dump-error" THEN [file |-> MalformedFile, ret |-> "False"]
            ELSE [file |-> save_hooks(r.hooks), ret |-> "True"]

\* `flow hooks set`: the hook script it installs and the setHook calls it
\* makes, in order (events_no_matcher with matcher None, then
\* events_with_matcher with matcher "*").
HookScript == <<"/", "pkg", "/", "flow_prompt_hook.py">>
ClearedEvent == "UserPromptSubmit"
SetHookCalls ==
    <<[event |-> "UserPromptSubmit", matcher |-> None],
      [event |-> "Notification", matcher |-> None],
      [event |-> "Stop", matcher |-> None],
      [event |-> "SubagentStop", matcher |-> None],
      [event |-> "PreToolUse", matcher |-> "*"],
      [event |-> "PostToolUse", matcher |-> "*"]>>

\* Both commands leave with typer.Exit(1) on a project or local scope outside
\* a repository.
ScopeAvailable(sc, root) == sc = "USER" \/ root # None

\* The two loops of hooks_set: every call passes flow_metadata=..., and an
\* exception of a call is not caught by the command.
RECURSIVE HooksSetLoop(_, _, _, _)
HooksSetLoop(sc, root, f, calls) ==
    IF calls = <<>> THEN [file |-> f, ret |-> "None"]
    ELSE LET r == setHook(sc, root, "ok", f, Head(calls).event, Head(calls).matcher,
                          HookScript, "flow-meta")
         IN IF r.ret = "TypeError" THEN [file |-> r.file, ret |-> "TypeError"]
            ELSE HooksSetLoop(sc, root, r.file, Tail(calls))

hooks_set(sc, root, script_exists, f) ==
    IF ~ScopeAvailable(sc, root) \/ ~script_exists THEN [file |-> f, ret |-> "Exit"]
    ELSE HooksSetLoop(sc, root, f, SetHookCalls)

\* `flow hooks clear`: one removeHook call, for UserPromptSubmit.
hooks_clear(sc, root, f) ==
    IF ~ScopeAvailable(sc, root) THEN [file |-> f, ret |-> "Exit"]
    ELSE [file |-> removeHook(sc, root, "ok", f, ClearedEvent, None).file, ret |-> "None"]

----------------------------------------------------------------------------
(* Bounded settings documents *)

GroupsWith(k) ==
    {[matcher |-> m, hooks |-> h, flow |-> fl] :
        m \in MatcherArgs, h \in [1..k -> HookObjs], fl \in FlowArgs}

\* The lists of groups holding at most n hook commands in all.
RECURSIVE EntryLists(_)
EntryLists(n) ==
    {<<>>} \cup UNION {{<<g>> \o rest : g \in GroupsWith(k), rest \in EntryLists(n - k)} :
                          k \in 1..n}

EventValues == {Null} \cup {List(l) : l \in EntryLists(MaxHooks)}

\* What the document holds for the other event: no key, null, or one group.
OtherGroup == [matcher |-> None, hooks |-> <<HookObj("command", FlowPing)>>, flow |-> NoFlow]
OtherValues == {Null, List(<<OtherGroup>>)}

TargetDocs ==
    {h \in UNION {[S -> EventValues] : S \in SUBSET Events} : TotalHooks(h) <= MaxHooks}

HooksDocs == TargetDocs \cup {SetKey(h, OtherEvent, v) : h \in TargetDocs, v \in OtherValues}

FileDocs ==
    {AbsentFile, MalformedFile, UndecodableFile, NotObjectFile, NoHooksKeyFile}
        \cup {JsonFile(h) : h \in HooksDocs}

----------------------------------------------------------------------------
(* Non-hook settings *)

\* The top-level keys of the settings file other than "hooks".  On disk they
\* are the members of the JSON object in the order of the text, where a key
\* may occur more than once; in the parser they are a dict: json.load keeps
\* the position of a key's first occurrence and the value of its last one,
\* json.dump writes the dict's items in their order.
SettingKeys == {"model", "env"}
SettingValues == {"v1", "v2"}
EmptyDict == [order |-> <<>>, value |-> [k \in {} |-> "v1"]]

RECURSIVE LoadMembers(_, _)
LoadMembers(dict, text) ==
    IF text = <<>> THEN dict
    ELSE LET k == Head(text)[1]
             v == Head(text)[2]
         IN LoadMembers(
                [order |-> IF k \in DOMAIN dict.value THEN dict.order
                           ELSE Append(dict.order, k),
                 value |-> [x \in DOMAIN dict.value \cup {k} |->
                               IF x = k THEN v ELSE dict.value[x]]],
                Tail(text))

LoadOthers(text) == LoadMembers(EmptyDict, text)

\* json.dump of {"hooks": ...} alone.
DumpHooksOnly(dict) == <<>>

\* json.dump(self.settings_data, f, indent=2): every item of the dict.
DumpOthers(dict) == [i \in 1..Len(dict.order) |-> <<dict.order[i], dict.value[dict.order[i]]>>]

InitOthers(text) ==
    others = [disk |-> text, mem |-> LoadOthers(text), loaded |-> LoadOthers(text)]

----------------------------------------------------------------------------
(* The login wait of server.py.  wait_for_post_login runs on the caller's  *)
(* thread, post_login on the server thread the waiter started: the two     *)
(* interleave between any two statements.  The server thread is a daemon   *)
(* thread that is never stopped, so it is still serving when               *)
(* wait_for_post_login is called again in the same process.                *)

\* The results post_login records, and the one the waiter builds on timeout.
LoginResults == {"login-ok-u1", "login-ok-u2", "login-failed"}
TimeoutResult == "Timeout"

\* How many times wait_for_post_login is called in one process.
MaxWaits == 2

\* What wait_for_post_login returned: through which branch, and the value.
Returned(via, value) == [via |-> via, value |-> value]
NotReturned == Returned("none", None)

InitLogin ==
    login = [result |-> None, received |-> FALSE, wpos |-> "idle", wret |-> NotReturned,
             hpos |-> "idle", server_up |-> FALSE, calls |-> 0]

notLogin == <<hookVars, regVars, bufVars, wsVars, httpVars, savers, srv, others>>

\* login_result = None
WaitResetResult ==
    /\ login.wpos \in {"idle", "returned"} /\ login.calls < MaxWaits
    /\ login' = [login EXCEPT !.result = None, !.wpos = "clear", !.wret = NotReturned,
                              !.calls = @ + 1]
    /\ UNCHANGED notLogin

\* login_received.clear()
WaitClearFlag ==
    /\ login.wpos = "clear"
    /\ login' = [login EXCEPT !.received = FALSE, !.wpos = "start"]
    /\ UNCHANGED notLogin

\* server_thread.start(); time.sleep(1)
WaitStartServer ==
    /\ login.wpos = "start"
    /\ login' = [login EXCEPT !.server_up = TRUE, !.wpos = "waiting"]
    /\ UNCHANGED notLogin

\* if login_received.wait(timeout=timeout_sec): return login_result
ResultWhenSet(l) == l.result

\* wait() returns True: the flag is set.
WaitFlagSet ==
    /\ login.wpos = "waiting" /\ login.received
    /\ login' = [login EXCEPT !.wpos = "returned",
                              !.wret = Returned("flag", ResultWhenSet(login))]
    /\ UNCHANGED notLogin

\* wait() returns False: the timeout elapsed with the flag not set.
WaitTimeout ==
    /\ login.wpos = "waiting" /\ ~login.received
    /\ login' = [login EXCEPT !.wpos = "returned",
                              !.wret = Returned("timeout", TimeoutResult)]
    /\ UNCHANGED notLogin

\* post_login: login_result = {...}, in the try block or in the except block.
PostLoginRecord(r) ==
    /\ login.server_up /\ login.hpos = "idle"
    /\ login' = [login EXCEPT !.result = r, !.hpos = "set"]
    /\ UNCHANGED notLogin

\* post_login: login_received.set()
PostLoginSet ==
    /\ login.hpos = "set"
    /\ login' = [login EXCEPT !.received = TRUE, !.hpos = "idle"]
    /\ UNCHANGED notLogin

NextLogin ==
    \/ WaitResetResult
    \/ WaitClearFlag
    \/ WaitStartServer
    \/ WaitFlagSet
    \/ WaitTimeout
    \/ \E r \in LoginResults : PostLoginRecord(r)
    \/ PostLoginSet

----------------------------------------------------------------------------
(* The settings file as text, written by save_hooks in two steps:          *)
(* open(path, 'w') truncates the file, and json.dump followed by the close *)
(* of the with block writes the document at the start of the writer's own  *)
(* file object.  Two processes that run setHook or removeHook on the same  *)
(* file interleave between any two of their steps: nothing locks the file. *)

Procs == {"p1", "p2"}

\* A document with n hooks as text, and the text read back as a document:
\* json.load raises JSONDecodeError on a text that is not one document, and
\* _load_settings then takes the empty registry.
Text(n) == <<"{">> \o [i \in 1..n |-> "h"] \o <<"}">>
IsDocument(text) == \E n \in 0..Len(text) : text = Text(n)
Parse(text) == IF IsDocument(text) THEN Len(text) - 2 ELSE 0

\* write(data) on a file object at offset 0: the bytes replace the first
\* Len(data) bytes of the file and the rest of the file stays.
WriteAtStart(content, data) ==
    IF Len(data) >= Len(content) THEN data
    ELSE data \o SubSeq(content, Len(data) + 1, Len(content))

InitSavers(n) ==
    savers = [disk |-> Text(n), pos |-> [p \in Procs |-> "idle"],
              doc |-> [p \in Procs |-> 0], lastw |-> None]

notSavers == <<hookVars, regVars, bufVars, wsVars, httpVars, login, srv, others>>

\* HookParser(path): _load_settings reads the file.
ProcLoad(p) ==
    /\ savers.pos[p] = "idle"
    /\ savers' = [savers EXCEPT !.pos[p] = "loaded", !.doc[p] = Parse(savers.disk)]
    /\ UNCHANGED notSavers

\* add_hook or remove_flow_hooks on the loaded document: one hook more or less.
ProcEdit(p, d) ==
    /\ savers.pos[p] = "loaded"
    /\ savers.doc[p] + d \in 0..MaxHooks
    /\ savers' = [savers EXCEPT !.pos[p] = "edited", !.doc[p] = @ + d]
    /\ UNCHANGED notSavers

\* save_hooks: open(self.hooks_file_path, 'w')
ProcOpen(p) ==
    /\ savers.pos[p] = "edited"
    /\ savers' = [savers EXCEPT !.pos[p] = "opened", !.disk = <<>>]
    /\ UNCHANGED notSavers

\* save_hooks: json.dump(self.settings_data, f, indent=2) and the close of f.
ProcDump(p) ==
    /\ savers.pos[p] = "opened"
    /\ savers' = [savers EXCEPT !.pos[p] = "idle",
                                !.disk = WriteAtStart(@, Text(savers.doc[p])),
                                !.lastw = Text(savers.doc[p])]
    /\ UNCHANGED notSavers

NextSavers ==
    \E p \in Procs :
        \/ ProcLoad(p)
        \/ \E d \in {-1, 1} : ProcEdit(p, d)
        \/ ProcOpen(p)
        \/ ProcDump(p)

----------------------------------------------------------------------------
(* WebSocketReporter and the websocket_hooks handlers of its connections.  *)
(* The handlers and report run on one event loop: they interleave at the   *)
(* awaits (send_json, receive_text), and run atomically between them.      *)

\* The events reported to the sinks.
ReportEvents == {"E1", "E2"}

Conns == {"c1", "c2"}

\* The envelopes sent over a connection.
HookOutput(event) == [type |-> "hook_output", output |-> event]
Initial(outputs) == [type |-> "initial", outputs |-> outputs]

\* What send_json does: returns, or raises because the peer is gone.
SendOutcomes == {"ok", "Exception"}

add_connection(conns, c) == IF c \notin Range(conns) THEN Append(conns, c) ELSE conns
remove_connection(conns, c) == IF c \in Range(conns) THEN RemoveFirst(conns, c) ELSE conns

\* "for ws in disconnected: self.remove_connection(ws)"
RECURSIVE RemoveDisconnected(_, _)
RemoveDisconnected(conns, gone) ==
    IF gone = <<>> THEN conns
    ELSE RemoveDisconnected(remove_connection(conns, Head(gone)), Tail(gone))

\* send_initial without its test of outputs.
send_initial_unguarded(outputs) == <<Initial(outputs)>>

\* The envelopes send_initial sends: one when outputs is not empty.
send_initial(outputs) == IF outputs # <<>> THEN <<Initial(outputs)>> ELSE <<>>

\* report's "except Exception" around send_json.
WsCatches(outcome) == outcome = "Exception"

InitWs ==
    /\ connections = <<>>
    /\ wpc = "idle" /\ widx = 0 /\ wevent = "E1"
    /\ disconnected = <<>> /\ attempted = <<>> /\ wfailed = {} /\ wstart = <<>>
    /\ wraised = FALSE
    /\ hs = [c \in Conns |-> "closed"]
    /\ hist = [c \in Conns |-> <<>>]
    /\ initials = [c \in Conns |-> <<>>]

notWs == <<hookVars, regVars, bufVars, httpVars, moreVars>>

\* websocket_hooks up to its first await after accept: add_connection, then
\* initial_outputs = buffer_reporter.get_recent_sync().
WsAccept(c) ==
    /\ hs[c] = "closed"
    /\ connections' = add_connection(connections, c)
    /\ hist' = [hist EXCEPT ![c] = buffer]
    /\ initials' = [initials EXCEPT ![c] = <<>>]
    /\ hs' = [hs EXCEPT ![c] = "accepted"]
    /\ UNCHANGED <<wpc, widx, wevent, disconnected, attempted, wfailed, wstart, wraised>>
    /\ UNCHANGED notWs

\* await send_initial(websocket, initial_outputs): a send that raises takes
\* the handler through "except Exception" to "finally: remove_connection".
WsSendInitial(c, outcome) ==
    /\ hs[c] = "accepted"
    /\ LET sent == send_initial(hist[c])
       IN /\ initials' = [initials EXCEPT ![c] = sent]
          /\ IF sent # <<>> /\ outcome # "ok"
             THEN /\ connections' = remove_connection(connections, c)
                  /\ hs' = [hs EXCEPT ![c] = "closed"]
             ELSE /\ connections' = connections
                  /\ hs' = [hs EXCEPT ![c] = "open"]
    /\ UNCHANGED <<wpc, widx, wevent, disconnected, attempted, wfailed, wstart, wraised, hist>>
    /\ UNCHANGED notWs

\* The receive loop ends (WebSocketDisconnect, or the pong send raises):
\* "finally: remove_connection".
WsDisconnect(c) ==
    /\ hs[c] = "open"
    /\ connections' = remove_connection(connections, c)
    /\ hs' = [hs EXCEPT ![c] = "closed"]
    /\ UNCHANGED <<wpc, widx, wevent, disconnected, attempted, wfailed, wstart, wraised,
                   hist, initials>>
    /\ UNCHANGED notWs

WsReportStart(e) ==
    /\ wpc # "sending"
    /\ wpc' = "sending" /\ widx' = 0 /\ wevent' = e
    /\ disconnected' = <<>> /\ attempted' = <<>> /\ wfailed' = {} /\ wraised' = FALSE
    /\ wstart' = connections
    /\ UNCHANGED <<connections, hs, hist, initials>>
    /\ UNCHANGED notWs

\* One turn of "for ws in self._connections": the iterator yields the next
\* item of the live list and send_json returns or raises.
WsReportSend(outcome) ==
    /\ wpc = "sending" /\ widx < Len(connections)
    /\ LET ws == connections[widx + 1]
       IN /\ attempted' = Append(attempted, [to |-> ws, envelope |-> HookOutput(wevent)])
          /\ wfailed' = IF outcome = "ok" THEN wfailed ELSE wfailed \cup {ws}
          /\ IF outcome = "ok"
             THEN UNCHANGED <<disconnected, wpc, wraised>>
             ELSE IF WsCatches(outcome)
             THEN disconnected' = Append(disconnected, ws) /\ UNCHANGED <<wpc, wraised>>
             ELSE wpc' = "done" /\ wraised' = TRUE /\ UNCHANGED disconnected
    /\ widx' = widx + 1
    /\ UNCHANGED <<connections, wevent, wstart, hs, hist, initials>>
    /\ UNCHANGED notWs

\* The iterator is exhausted: the disconnected are removed and report returns.
WsReportFinish ==
    /\ wpc = "sending" /\ widx >= Len(connections)
    /\ connections' = RemoveDisconnected(connections, disconnected)
    /\ wpc' = "done"
    /\ UNCHANGED <<widx, wevent, disconnected, attempted, wfailed, wstart, wraised,
                   hs, hist, initials>>
    /\ UNCHANGED notWs

NextWs ==
    \/ \E c \in Conns : WsAccept(c)
    \/ \E c \in Conns, o \in SendOutcomes : WsSendInitial(c, o)
    \/ \E c \in Conns : WsDisconnect(c)
    \/ \E e \in ReportEvents : WsReportStart(e)
    \/ \E o \in SendOutcomes : WsReportSend(o)
    \/ WsReportFinish

----------------------------------------------------------------------------
(* HttpReporter *)

\* Bound: the largest retry_count tried.
MaxRetries == 2

\* What one POST does: a response with a status, or an exception.
Statuses == {199, 200, 204, 299, 300, 404, 500}
Response(status) == [kind |-> "response", status |-> status]
Raises(kind) == [kind |-> kind, status |-> 0]
PostOutcomes ==
    {Response(n) : n \in Statuses}
        \cup {Raises(k) : k \in {"TimeoutError", "ClientError", "Exception"}}

\* "if 200 <= response.status < 300: return"
Is2xx(outcome) == outcome.kind = "response" /\ 200 <= outcome.status /\ outcome.status < 300

\* The number of turns of the loop, counting the retries only.
AttemptsRetriesOnly(n) == n

\* attempts = self._retry_count + 1
Attempts(n) == n + 1

\* The except clauses without the last one, "except Exception".
HttpCatchesNetworkOnly(outcome) == outcome.kind \in {"response", "TimeoutError", "ClientError"}

\* The except clauses of the loop body: asyncio.TimeoutError,
\* aiohttp.ClientError, Exception; a response raises nothing.
HttpCatches(outcome) ==
    outcome.kind \in {"response", "TimeoutError", "ClientError", "Exception"}

InitHttp(n) ==
    /\ retry_count = n
    /\ hpc = "idle" /\ hattempt = 0 /\ hlog = <<>> /\ hraised = FALSE

\* The sinks as constructed: no connection, retry_count at its default.
\* Concurrent report_hook requests.
Calls == {"k1", "k2"}

\* The events reported, numbered in the order their report_all calls start.
MaxEvents == 2

\* state.py: BufferReporter(max_size=100), and the registry with the buffer
\* added before the websocket reporter.
ServerMaxSize == 100

\* Mutant of DefaultRegistry: the websocket reporter is added first.
BroadcastFirst == <<"ws", "buffer">>

DefaultRegistry == <<"buffer", "ws">>

IdleCall ==
    [pos |-> "idle", event |-> 0, ri |-> 0, wi |-> 0, inws |-> FALSE, target |-> None,
     disconnected |-> <<>>, kept |-> {}, sentTo |-> <<>>]

ClosedHandler == [pos |-> "new", snap |-> <<>>, mark |-> 0, got |-> <<>>]

InitServer ==
    srv = [registry |-> DefaultRegistry, buf |-> <<>>, conns |-> <<>>, next |-> 1,
           call |-> [k \in Calls |-> IdleCall],
           hs |-> [c \in Conns |-> ClosedHandler],
           failed |-> {}, done |-> {}]

InitMore == InitLogin /\ InitSavers(0) /\ InitServer /\ InitOthers(<<>>)

InitSinks == InitWs /\ InitHttp(0) /\ InitMore

notHttp == <<hookVars, regVars, bufVars, wsVars, moreVars>>

HttpReportStart ==
    /\ hpc # "posting"
    /\ hpc' = "posting" /\ hattempt' = 0 /\ hlog' = <<>> /\ hraised' = FALSE
    /\ UNCHANGED retry_count
    /\ UNCHANGED notHttp

\* One turn of "for attempt in range(attempts)": a POST and what follows it.
HttpAttempt(outcome) ==
    /\ hpc = "posting" /\ hattempt < Attempts(retry_count)
    /\ hlog' = Append(hlog, outcome)
    /\ hattempt' = hattempt + 1
    /\ IF Is2xx(outcome) THEN hpc' = "done" /\ hraised' = hraised
       ELSE IF HttpCatches(outcome) THEN hpc' = hpc /\ hraised' = hraised
       ELSE hpc' = "done" /\ hraised' = TRUE
    /\ UNCHANGED retry_count
    /\ UNCHANGED notHttp

\* range(attempts) is exhausted: report returns.
HttpReportReturn ==
    /\ hpc = "posting" /\ hattempt >= Attempts(retry_count)
    /\ hpc' = "done"
    /\ UNCHANGED <<retry_count, hattempt, hlog, hraised>>
    /\ UNCHANGED notHttp

NextHttp ==
    \/ HttpReportStart
    \/ \E o \in PostOutcomes : HttpAttempt(o)
    \/ HttpReportReturn

----------------------------------------------------------------------------
(* ReporterRegistry *)

Sinks == {"s1", "s2", "s3"}

\* What a sink's report() does when called: return, or raise an Exception.
Outcomes == {"ok", "Exception"}

\* Mutant of Catches: the loop without its try/except.
CatchesNothing(outcome) == FALSE

\* The handler of report_all's try: "except Exception".
Catches(outcome) == outcome = "Exception"

RegOp(op, sink, pre) == [op |-> op, sink |-> sink, pre |-> pre]

InitRegistry ==
    /\ reporters = <<>>
    /\ rpc = "idle" /\ ridx = 0 /\ revent = "E1"
    /\ called = <<>> /\ raisedIn = {} /\ escaped = FALSE /\ modified = FALSE
    /\ rlast = RegOp("init", None, <<>>)
    /\ delivered = <<>> /\ arrived = "E1" /\ rkept = {}

InitReporters == InitRegistry /\ InitSinks

Running == rpc = "running"

\* add's test "reporter not in self._reporters", without it.
ShouldAddAlways(rs, s) == TRUE

\* add appends the reporter only when the list does not hold it.
ShouldAdd(rs, s) == s \notin Range(rs)

RegAdd(s) ==
    /\ reporters' = IF ShouldAdd(reporters, s) THEN Append(reporters, s) ELSE reporters
    /\ modified' = (modified \/ (rpc # "idle" /\ reporters' # reporters))
    /\ rlast' = RegOp("add", s, reporters)
    /\ UNCHANGED <<rpc, ridx, revent, called, raisedIn, escaped, delivered, arrived, rkept>>
    /\ UNCHANGED <<hookVars, bufVars, sinkVars>>

\* remove removes the reporter only when the list holds it.
RegRemove(s) ==
    /\ reporters' = IF s \in Range(reporters) THEN RemoveFirst(reporters, s) ELSE reporters
    /\ modified' = (modified \/ (rpc # "idle" /\ reporters' # reporters))
    /\ rlast' = RegOp("remove", s, reporters)
    /\ rkept' = rkept \ {s}
    /\ UNCHANGED <<rpc, ridx, revent, called, raisedIn, escaped, delivered, arrived>>
    /\ UNCHANGED <<hookVars, bufVars, sinkVars>>

RegClear ==
    /\ reporters' = <<>>
    /\ modified' = (modified \/ (rpc # "idle" /\ reporters' # reporters))
    /\ rlast' = RegOp("clear", None, reporters)
    /\ rkept' = {}
    /\ UNCHANGED <<rpc, ridx, revent, called, raisedIn, escaped, delivered, arrived>>
    /\ UNCHANGED <<hookVars, bufVars, sinkVars>>

\* The list iterator's next item, walking the list from its end.
NextReporterBackwards(rs, i) == rs[Len(rs) - i]

\* The list iterator's next item after it has yielded i items.
NextReporter(rs, i) == rs[i + 1]

ReportAllStart(e) ==
    /\ ~Running
    /\ rpc' = "running" /\ ridx' = 0 /\ revent' = e
    /\ called' = <<>> /\ raisedIn' = {} /\ escaped' = FALSE /\ modified' = FALSE
    /\ delivered' = <<>> /\ rkept' = Range(reporters)
    /\ UNCHANGED <<reporters, rlast, arrived>>
    /\ UNCHANGED <<hookVars, bufVars, sinkVars>>

\* One turn of the for loop: the iterator yields the next reporter, whose
\* report(event) returns or raises; what the handler does not catch leaves
\* report_all.
ReportAllStep(outcome) ==
    /\ Running /\ ridx < Len(reporters)
    /\ LET reporter == NextReporter(reporters, ridx)
       IN /\ called' = Append(called, reporter)
          /\ delivered' = Append(delivered, revent)
          /\ raisedIn' = IF outcome = "ok" THEN raisedIn ELSE raisedIn \cup {reporter}
          /\ IF outcome = "ok" \/ Catches(outcome)
             THEN rpc' = rpc /\ escaped' = escaped
             ELSE rpc' = "done" /\ escaped' = TRUE
    /\ ridx' = ridx + 1
    /\ UNCHANGED <<reporters, revent, modified, rlast, arrived, rkept>>
    /\ UNCHANGED <<hookVars, bufVars, sinkVars>>

\* The iterator is exhausted: report_all returns.
ReportAllReturn ==
    /\ Running /\ ridx >= Len(reporters)
    /\ rpc' = "done"
    /\ UNCHANGED <<reporters, ridx, revent, called, raisedIn, escaped, modified, rlast,
                   delivered, arrived, rkept>>
    /\ UNCHANGED <<hookVars, bufVars, sinkVars>>

\* The report ingress (POST /api/hooks/report).  An event is the JSON
\* object of the request: a function from its keys to their values.
EventKey == "hook_event_name"
TimestampKey == "timestamp"

\* Timestamps a request may carry, and the values time.time() may return.
SentTimestamps == {5, 6}
Clock == {100, 101}

Bare(name) == [k \in {EventKey} |-> name]
Stamped(name, ts) == [k \in {EventKey, TimestampKey} |-> IF k = EventKey THEN name ELSE ts]
IngressData ==
    {Bare(n) : n \in ReportEvents}
        \cup {Stamped(n, ts) : n \in ReportEvents, ts \in SentTimestamps}

\* data["timestamp"] = time.time(), whatever the data holds.
StampAlways(data, now) ==
    [k \in DOMAIN data \cup {TimestampKey} |-> IF k = TimestampKey THEN now ELSE data[k]]

\* if "timestamp" not in data: data["timestamp"] = time.time()
Stamp(data, now) ==
    IF TimestampKey \notin DOMAIN data
    THEN [k \in DOMAIN data \cup {TimestampKey} |-> IF k = TimestampKey THEN now ELSE data[k]]
    ELSE data

\* report_hook up to its await: the timestamp is added and report_all is
\* entered with the data; ReportAllStep and ReportAllReturn go on from there.
ReportHook(data, now) ==
    /\ ~Running
    /\ arrived' = data
    /\ revent' = Stamp(data, now)
    /\ rpc' = "running" /\ ridx' = 0
    /\ called' = <<>> /\ raisedIn' = {} /\ escaped' = FALSE /\ modified' = FALSE
    /\ delivered' = <<>> /\ rkept' = Range(reporters)
    /\ UNCHANGED <<reporters, rlast>>
    /\ UNCHANGED <<hookVars, bufVars, sinkVars>>

NextIngress ==
    \/ \E data \in IngressData, now \in Clock : ReportHook(data, now)
    \/ \E o \in Outcomes : ReportAllStep(o)
    \/ ReportAllReturn
    \/ \E s \in Sinks : RegAdd(s)

NextReg ==
    \/ \E s \in Sinks : RegAdd(s)
    \/ \E s \in Sinks : RegRemove(s)
    \/ RegClear
    \/ \E e \in ReportEvents : ReportAllStart(e)
    \/ \E o \in Outcomes : ReportAllStep(o)
    \/ ReportAllReturn

----------------------------------------------------------------------------
(* BufferReporter, called from several threads.  Each method is a sequence *)
(* of steps: entering "with self._lock", the statements of the body, and   *)
(* leaving the with block.                                                 *)

Threads == {"t1", "t2"}
NoThread == "none"

\* Bounds: the largest max_size tried, and the number of report() calls.
MaxSize == 2
MaxReports == 4

NoResult == [kind |-> "none", list |-> <<>>, n |-> 0, then |-> <<>>]
\* A returned copy of the buffer; then = the events reported when it was taken.
ListResult(l, then) == [kind |-> "list", list |-> l, n |-> Len(l), then |-> then]
SizeResult(k, then) == [kind |-> "size", list |-> <<>>, n |-> k, then |-> then]

\* A list object a caller holds: the buffer's own list (alias), or a list
\* of its own with the items given.
NoList == [alias |-> FALSE, list |-> <<>>]

\* Returning self._buffer itself.
LiveList(buf) == [alias |-> TRUE, list |-> <<>>]

\* self._buffer.copy(): a new list with the items of the buffer.
Snapshot(buf) == [alias |-> FALSE, list |-> buf]

\* The items of a list object, given the buffer's items.
Deref(obj, buf) == IF obj.alias THEN buf ELSE obj.list

InitBuffer ==
    /\ buffer = <<>> /\ max_size \in 1..MaxSize /\ lock = NoThread
    /\ tpc = [t \in Threads |-> "idle"]
    /\ targ = [t \in Threads |-> "E1"]
    /\ tret = [t \in Threads |-> NoResult]
    /\ reported = <<>> /\ nreports = 0
    /\ held = [t \in Threads |-> NoList]

\* Mutant of CanAcquire: the methods run without mutual exclusion.
CanAcquireAlways(t) == TRUE

\* threading.Lock.acquire: blocks while another thread holds the lock.
CanAcquire(t) == lock = NoThread

\* "with self._lock:" entered by a thread calling the method.
Enter(t, method) ==
    /\ tpc[t] = "idle" /\ CanAcquire(t)
    /\ lock' = t
    /\ tpc' = [tpc EXCEPT ![t] = method]
    /\ tret' = [tret EXCEPT ![t] = NoResult]
    /\ held' = [held EXCEPT ![t] = NoList]

\* Leaving the with block releases the lock; the method returns.
Leave(t, result, object) ==
    /\ lock' = IF lock = t THEN NoThread ELSE lock
    /\ tpc' = [tpc EXCEPT ![t] = "idle"]
    /\ tret' = [tret EXCEPT ![t] = result]
    /\ held' = [held EXCEPT ![t] = object]

\* Mutant of OverFull: the comparison off by one.
OverFullEarly(buf, max) == Len(buf) >= max

\* if len(self._buffer) > self._max_size
OverFull(buf, max) == Len(buf) > max

ReportEnter(t, e) ==
    /\ nreports < MaxReports
    /\ Enter(t, "report:append")
    /\ targ' = [targ EXCEPT ![t] = e]
    /\ nreports' = nreports + 1
    /\ UNCHANGED <<buffer, max_size, reported>>
    /\ UNCHANGED <<hookVars, regVars, sinkVars>>

\* self._buffer.append(event)
ReportAppend(t) ==
    /\ tpc[t] = "report:append"
    /\ buffer' = Append(buffer, targ[t])
    /\ reported' = Append(reported, targ[t])
    /\ tpc' = [tpc EXCEPT ![t] = "report:evict"]
    /\ UNCHANGED <<max_size, lock, targ, tret, nreports, held>>
    /\ UNCHANGED <<hookVars, regVars, sinkVars>>

\* if over max size: self._buffer.pop(0)
ReportEvict(t) ==
    /\ tpc[t] = "report:evict"
    /\ buffer' = IF OverFull(buffer, max_size) THEN Tail(buffer) ELSE buffer
    /\ tpc' = [tpc EXCEPT ![t] = "report:leave"]
    /\ UNCHANGED <<max_size, lock, targ, tret, reported, nreports, held>>
    /\ UNCHANGED <<hookVars, regVars, sinkVars>>

ReportLeave(t) ==
    /\ tpc[t] = "report:leave"
    /\ Leave(t, NoResult, NoList)
    /\ UNCHANGED <<buffer, max_size, targ, reported, nreports>>
    /\ UNCHANGED <<hookVars, regVars, sinkVars>>

\* get_recent and get_recent_sync: return self._buffer.copy() under the lock.
GetRecentEnter(t) ==
    /\ Enter(t, "get_recent:copy")
    /\ UNCHANGED <<buffer, max_size, targ, reported, nreports>>
    /\ UNCHANGED <<hookVars, regVars, sinkVars>>

GetRecentReturn(t) ==
    /\ tpc[t] = "get_recent:copy"
    /\ Leave(t, ListResult(buffer, reported), Snapshot(buffer))
    /\ UNCHANGED <<buffer, max_size, targ, reported, nreports>>
    /\ UNCHANGED <<hookVars, regVars, sinkVars>>

\* size: return len(self._buffer) under the lock.
SizeEnter(t) ==
    /\ Enter(t, "size:len")
    /\ UNCHANGED <<buffer, max_size, targ, reported, nreports>>
    /\ UNCHANGED <<hookVars, regVars, sinkVars>>

SizeReturn(t) ==
    /\ tpc[t] = "size:len"
    /\ Leave(t, SizeResult(Len(buffer), reported), NoList)
    /\ UNCHANGED <<buffer, max_size, targ, reported, nreports>>
    /\ UNCHANGED <<hookVars, regVars, sinkVars>>

\* clear: self._buffer.clear() under the lock.
ClearEnter(t) ==
    /\ Enter(t, "clear:clear")
    /\ UNCHANGED <<buffer, max_size, targ, reported, nreports>>
    /\ UNCHANGED <<hookVars, regVars, sinkVars>>

ClearReturn(t) ==
    /\ tpc[t] = "clear:clear"
    /\ buffer' = <<>> /\ reported' = <<>>
    /\ Leave(t, NoResult, NoList)
    /\ UNCHANGED <<max_size, targ, nreports>>
    /\ UNCHANGED <<hookVars, regVars, sinkVars>>

\* The caller of get_recent appends an item of its own to the list it was
\* returned (once), or empties it.
CallerItem == "caller-item"

CallerAppend(t, e) ==
    /\ tpc[t] = "idle" /\ tret[t].kind = "list"
    /\ Len(Deref(held[t], buffer)) <= Len(tret[t].list)
    /\ IF held[t].alias
       THEN buffer' = Append(buffer, e) /\ held' = held
       ELSE /\ held' = [held EXCEPT ![t] = [alias |-> FALSE, list |-> Append(held[t].list, e)]]
            /\ buffer' = buffer
    /\ UNCHANGED <<max_size, lock, tpc, targ, tret, reported, nreports>>
    /\ UNCHANGED <<hookVars, regVars, sinkVars>>

CallerClear(t) ==
    /\ tpc[t] = "idle" /\ tret[t].kind = "list"
    /\ Deref(held[t], buffer) # <<>>
    /\ IF held[t].alias
       THEN buffer' = <<>> /\ held' = held
       ELSE /\ held' = [held EXCEPT ![t] = [alias |-> FALSE, list |-> <<>>]]
            /\ buffer' = buffer
    /\ UNCHANGED <<max_size, lock, tpc, targ, tret, reported, nreports>>
    /\ UNCHANGED <<hookVars, regVars, sinkVars>>

\* The buffer with callers that keep and change the lists they were returned.
NextSnap ==
    \/ \E t \in Threads, e \in ReportEvents : ReportEnter(t, e)
    \/ \E t \in Threads : ReportAppend(t)
    \/ \E t \in Threads : ReportEvict(t)
    \/ \E t \in Threads : ReportLeave(t)
    \/ \E t \in Threads : GetRecentEnter(t)
    \/ \E t \in Threads : GetRecentReturn(t)
    \/ \E t \in Threads : ClearEnter(t)
    \/ \E t \in Threads : ClearReturn(t)
    \/ \E t \in Threads : CallerAppend(t, CallerItem)
    \/ \E t \in Threads : CallerClear(t)

NextBuf ==
    \/ \E t \in Threads, e \in ReportEvents : ReportEnter(t, e)
    \/ \E t \in Threads : ReportAppend(t)
    \/ \E t \in Threads : ReportEvict(t)
    \/ \E t \in Threads : ReportLeave(t)
    \/ \E t \in Threads : GetRecentEnter(t)
    \/ \E t \in Threads : GetRecentReturn(t)
    \/ \E t \in Threads : SizeEnter(t)
    \/ \E t \in Threads : SizeReturn(t)
    \/ \E t \in Threads : ClearEnter(t)
    \/ \E t \in Threads : ClearReturn(t)

----------------------------------------------------------------------------
(* The server's event loop.  report_hook calls and websocket_hooks handlers *)
(* are tasks of one cooperative loop: a task runs until it suspends in a    *)
(* send on a websocket, and only then another task runs.  Each action below *)
(* is the run of one task from one suspension to the next.                  *)

notServer == <<hookVars, regVars, bufVars, wsVars, httpVars, login, savers, others>>

\* BufferReporter.report: append, then evict the oldest when over max_size.
BufferReport(buf, e) ==
    LET b == Append(buf, e) IN IF OverFull(b, ServerMaxSize) THEN Tail(b) ELSE b

\* A connection leaves the active set: it is no longer in the set for the
\* whole duration of the report calls that are running.
Dropped(s, gone) ==
    [s EXCEPT !.conns = RemoveDisconnected(s.conns, gone),
              !.call = [k \in Calls |-> [s.call[k] EXCEPT !.kept = @ \ Range(gone)]]]

\* report_all(event) of call k from where it stands to its next suspension:
\* the registry's for loop, BufferReporter.report (which never suspends),
\* and WebSocketReporter.report up to its next 'await ws.send_json' or
\* through its removal of the disconnected clients.  Both for loops iterate
\* the live lists.
RECURSIVE RunToSuspension(_, _)
RunToSuspension(s, k) ==
    LET c == s.call[k]
    IN IF c.inws
       THEN IF c.wi < Len(s.conns)
            THEN [s EXCEPT !.call[k].pos = "ws-send",
                           !.call[k].target = s.conns[c.wi + 1],
                           !.call[k].wi = c.wi + 1]
            ELSE RunToSuspension(
                     [Dropped(s, c.disconnected) EXCEPT !.call[k].inws = FALSE], k)
       ELSE IF c.ri < Len(s.registry)
            THEN LET sink == s.registry[c.ri + 1]
                     s1 == [s EXCEPT !.call[k].ri = c.ri + 1]
                 IN IF sink = "buffer"
                    THEN RunToSuspension(
                             [s1 EXCEPT !.buf = BufferReport(s.buf, c.event)], k)
                    ELSE RunToSuspension(
                             [s1 EXCEPT !.call[k].inws = TRUE,
                                        !.call[k].wi = 0,
                                        !.call[k].disconnected = <<>>,
                                        !.call[k].kept = Range(s.conns),
                                        !.call[k].sentTo = <<>>], k)
            ELSE [s EXCEPT !.call[k].pos = "done", !.done = @ \cup {c.event}]

\* report_hook: await state.reporter_registry.report_all(data)
SrvReportAll(k) ==
    /\ srv.call[k].pos \in {"idle", "done"} /\ srv.next <= MaxEvents
    /\ srv' = RunToSuspension(
                  [srv EXCEPT !.call[k] = [IdleCall EXCEPT !.event = srv.next],
                              !.next = @ + 1], k)
    /\ UNCHANGED notServer

\* The send of call k returns or raises; a closed socket raises.
SrvSendDone(k, outcome) ==
    /\ srv.call[k].pos = "ws-send"
    /\ LET c == srv.call[k].target
           e == srv.call[k].event
       IN /\ srv.hs[c].pos = "closed" => outcome = "Exception"
          /\ srv' = RunToSuspension(
                 [srv EXCEPT
                     !.call[k].pos = "running",
                     !.call[k].sentTo = Append(@, c),
                     !.call[k].disconnected = IF outcome = "ok" THEN @ ELSE Append(@, c),
                     !.failed = IF outcome = "ok" THEN @ ELSE @ \cup {c},
                     !.hs[c].got = IF outcome = "ok" THEN Append(@, HookOutput(e)) ELSE @],
                 k)
    /\ UNCHANGED notServer

\* websocket_hooks after accept: add_connection, get_recent_sync and
\* send_initial up to its send, which is skipped on an empty history.
SrvHandshake(c) ==
    /\ srv.hs[c].pos = "new"
    /\ LET outputs == srv.buf
       IN srv' = [srv EXCEPT
                     !.conns = add_connection(@, c),
                     !.hs[c].snap = outputs,
                     !.hs[c].mark = srv.next,
                     !.hs[c].pos = IF send_initial(outputs) = <<>>
                                   THEN "open" ELSE "initial-send"]
    /\ UNCHANGED notServer

\* The send of send_initial returns, or raises: except, then finally
\* remove_connection.
SrvInitialDone(c, outcome) ==
    /\ srv.hs[c].pos = "initial-send"
    /\ srv' = IF outcome = "ok"
              THEN [srv EXCEPT !.hs[c].pos = "open",
                               !.hs[c].got = @ \o send_initial(srv.hs[c].snap)]
              ELSE [Dropped(srv, <<c>>) EXCEPT !.hs[c].pos = "closed",
                                               !.failed = @ \cup {c}]
    /\ UNCHANGED notServer

\* receive_text raises WebSocketDisconnect: break, finally remove_connection.
SrvDisconnect(c) ==
    /\ srv.hs[c].pos = "open"
    /\ srv' = [Dropped(srv, <<c>>) EXCEPT !.hs[c].pos = "closed"]
    /\ UNCHANGED notServer

NextServer ==
    \/ \E k \in Calls : SrvReportAll(k)
    \/ \E k \in Calls, o \in SendOutcomes : SrvSendDone(k, o)
    \/ \E c \in Conns : SrvHandshake(c)
    \/ \E c \in Conns, o \in SendOutcomes : SrvInitialDone(c, o)
    \/ \E c \in Conns : SrvDisconnect(c)

----------------------------------------------------------------------------
(* State machine of the hook editor and of the tool-facing operations *)

Op(op, event, matcher, command, flow, ret, pre) ==
    [op |-> op, event |-> event, matcher |-> matcher, command |-> command,
     flow |-> flow, ret |-> ret, pre |-> pre]

\* A HookParser constructed on a settings file of any bounded content.
InitEditor ==
    /\ settings_data \in {LoadSettings(f) : f \in FileDocs}
    /\ file = AbsentFile
    /\ scope = "USER" /\ repo_root = None
    /\ last = Op("init", None, None, NoCommand, NoFlow, "None", settings_data)
    /\ InitReporters /\ InitBuffer /\ max_size = MaxSize

AddHook(e, m, c, fl) ==
    /\ TotalHooks(settings_data) < MaxHooks
    /\ LET r == add_hook(settings_data, e, m, "command", c, fl)
       IN /\ settings_data' = r.hooks
          /\ last' = Op("add_hook", e, m, c, fl, r.ret, settings_data)
    /\ UNCHANGED <<file, scope, repo_root, regVars, bufVars, sinkVars>>

RemoveHook(e, m, c) ==
    /\ LET r == remove_hook(settings_data, e, m, c)
       IN /\ settings_data' = r.hooks
          /\ last' = Op("remove_hook", e, m, c, NoFlow, r.ret, settings_data)
    /\ UNCHANGED <<file, scope, repo_root, regVars, bufVars, sinkVars>>

RemoveFlowHooks(e, m) ==
    /\ LET r == remove_flow_hooks(settings_data, e, m)
       IN /\ settings_data' = r.hooks
          /\ last' = Op("remove_flow_hooks", e, m, NoCommand, NoFlow, r.ret, settings_data)
    /\ UNCHANGED <<file, scope, repo_root, regVars, bufVars, sinkVars>>

NextEditor ==
    \/ \E e \in Events, m \in MatcherArgs, c \in Commands, fl \in FlowArgs :
          AddHook(e, m, c, fl)
    \/ \E e \in Events, m \in MatcherArgs, c \in Commands \cup {NoCommand} :
          RemoveHook(e, m, c)
    \/ \E e \in Events, m \in MatcherArgs : RemoveFlowHooks(e, m)

SpecEditor == InitEditor /\ [][NextEditor]_vars

ClearEvent(e) ==
    /\ LET r == clear_event(settings_data, e)
       IN /\ settings_data' = r.hooks
          /\ last' = Op("clear_event", e, None, NoCommand, NoFlow, r.ret, settings_data)
    /\ UNCHANGED <<file, scope, repo_root, regVars, bufVars, sinkVars>>

\* The editor on a parser constructed without a settings file: the empty
\* registry, edited with every matcher argument, the empty string included.
InitFresh ==
    /\ settings_data = EmptyHooks
    /\ file = AbsentFile
    /\ scope = "USER" /\ repo_root = None
    /\ last = Op("init", None, None, NoCommand, NoFlow, "None", settings_data)
    /\ InitReporters /\ InitBuffer /\ max_size = MaxSize

FreshEvents == Events

NextFresh ==
    \/ \E e \in FreshEvents, m \in FreshMatchers, c \in Commands, fl \in FlowArgs :
          AddHook(e, m, c, fl)
    \/ \E e \in FreshEvents, m \in FreshMatchers, c \in Commands \cup {NoCommand} :
          RemoveHook(e, m, c)
    \/ \E e \in FreshEvents, m \in FreshMatchers : RemoveFlowHooks(e, m)
    \/ \E e \in FreshEvents : ClearEvent(e)

SpecFresh == InitFresh /\ [][NextFresh]_vars

\* The settings file as the CLI finds it: any bounded content.
InitTool ==
    /\ file \in FileDocs
    /\ settings_data = EmptyHooks
    /\ scope = "USER" /\ repo_root = None
    /\ last = Op("init", None, None, NoCommand, NoFlow, "None", file)
    /\ InitReporters /\ InitBuffer /\ max_size = MaxSize

SetHook(e, m, c, fl, io) ==
    /\ TotalHooks(LoadSettings(file)) < MaxHooks
    /\ LET r == setHook(scope, repo_root, io, file, e, m, c, fl)
       IN /\ file' = r.file
          /\ last' = Op("setHook", e, m, c, fl, r.ret, file)
    /\ UNCHANGED <<settings_data, scope, repo_root, regVars, bufVars, sinkVars>>

RemoveHookTool(e, m, io) ==
    /\ LET r == removeHook(scope, repo_root, io, file, e, m)
       IN /\ file' = r.file
          /\ last' = Op("removeHook", e, m, NoCommand, NoFlow, r.ret, file)
    /\ UNCHANGED <<settings_data, scope, repo_root, regVars, bufVars, sinkVars>>

NextTool ==
    \/ \E e \in Events, m \in MatcherArgs, c \in Commands, fl \in FlowArgs :
          SetHook(e, m, c, fl, "ok")
    \/ \E e \in Events, m \in MatcherArgs : RemoveHookTool(e, m, "ok")

SpecTool == InitTool /\ [][NextTool]_vars

\* The tool-facing operations called with any scope, inside or outside a
\* repository, on a settings file of any kind, with I/O that may fail.
ScopeFiles ==
    {AbsentFile, MalformedFile, UndecodableFile, NotObjectFile, NoHooksKeyFile}
        \cup {JsonFile(h) : h \in {EmptyHooks} \cup {SetKey(EmptyHooks, e, Null) : e \in Events}}

InitScope ==
    /\ file \in ScopeFiles
    /\ settings_data = EmptyHooks
    /\ scope \in Scopes /\ repo_root \in {None, RepoRoot}
    /\ last = Op("init", None, None, NoCommand, NoFlow, "None", file)
    /\ InitReporters /\ InitBuffer /\ max_size = MaxSize

NextScope ==
    \/ \E e \in Events, m \in MatcherArgs, c \in Commands, fl \in FlowArgs, io \in IOOutcomes :
          SetHook(e, m, c, fl, io)
    \/ \E e \in Events, m \in MatcherArgs, io \in IOOutcomes : RemoveHookTool(e, m, io)

SpecScope == InitScope /\ [][NextScope]_vars

----------------------------------------------------------------------------
(* The store: a parser is constructed on the settings file (load) and      *)
(* written back (save).  The registry in memory and the file are any       *)
(* bounded documents: the file may have been changed by other tools since  *)
(* the parser was constructed.                                             *)

\* What the ghost variable keeps of the state before a load or a save: the
\* registry, the operation before it and the one before that.
StorePre == [kind |-> last.op, hooks |-> settings_data, before |-> last.pre.kind]

InitStore ==
    /\ settings_data \in HooksDocs
    /\ file \in ScopeFiles
    /\ scope = "USER" /\ repo_root = None
    /\ last = Op("init", None, None, NoCommand, NoFlow, "None", file)
    /\ InitReporters /\ InitBuffer /\ max_size = MaxSize

\* HookParser(path): __init__ runs _load_settings; when it raises, no parser
\* is constructed and the registry in memory is the one there was.
Load ==
    /\ settings_data' = IF LoadError(file) = "None" THEN LoadSettings(file)
                        ELSE settings_data
    /\ last' = Op("load", None, None, NoCommand, NoFlow, LoadError(file), StorePre)
    /\ UNCHANGED <<file, scope, repo_root, regVars, bufVars, sinkVars>>

\* save_hooks deletes the null events from settings_data, then writes it.
Save ==
    /\ file' = save_hooks(settings_data)
    /\ settings_data' = StripNull(settings_data)
    /\ last' = Op("save_hooks", None, None, NoCommand, NoFlow, "None", StorePre)
    /\ UNCHANGED <<scope, repo_root, regVars, bufVars, sinkVars>>

NextStore == Load \/ Save

SpecStore == InitStore /\ [][NextStore]_vars

\* The CLI commands `flow hooks set` and `flow hooks clear` on a settings file
\* that holds any bounded list of groups, or nothing, for UserPromptSubmit.
CliFiles ==
    {AbsentFile, JsonFile(EmptyHooks)}
        \cup {JsonFile(SetKey(EmptyHooks, ClearedEvent, List(l))) : l \in EntryLists(MaxHooks - 1)}

InitCli ==
    /\ file \in CliFiles
    /\ settings_data = EmptyHooks
    /\ scope \in {"USER", "PROJECT"} /\ repo_root = None
    /\ last = Op("init", None, None, NoCommand, NoFlow, "None", file)
    /\ InitReporters /\ InitBuffer /\ max_size = MaxSize

HooksSet(script_exists) ==
    /\ LET r == hooks_set(scope, repo_root, script_exists, file)
       IN /\ file' = r.file
          /\ last' = Op("hooks_set", None, None, HookScript, "flow-meta", r.ret, file)
    /\ UNCHANGED <<settings_data, scope, repo_root, regVars, bufVars, sinkVars>>

HooksClear ==
    /\ LET r == hooks_clear(scope, repo_root, file)
       IN /\ file' = r.file
          /\ last' = Op("hooks_clear", ClearedEvent, None, NoCommand, NoFlow, r.ret, file)
    /\ UNCHANGED <<settings_data, scope, repo_root, regVars, bufVars, sinkVars>>

NextCli ==
    \/ \E script_exists \in BOOLEAN : HooksSet(script_exists)
    \/ HooksClear

SpecCli == InitCli /\ [][NextCli]_vars

\* The editor and save_hooks on one parser, constructed without a settings
\* file: every method that edits the registry, and the one that writes it.
UpdateMatcher(e, old, new) ==
    /\ LET r == update_matcher(settings_data, e, old, new)
       IN /\ settings_data' = r.hooks
          /\ last' = Op("update_matcher", e, old, NoCommand, NoFlow, r.ret, settings_data)
    /\ UNCHANGED <<file, scope, repo_root, regVars, bufVars, sinkVars>>

\* clear_all that also writes the file.
ClearAllSaving ==
    /\ settings_data' = clear_all(settings_data).hooks
    /\ file' = save_hooks(settings_data')
    /\ last' = Op("clear_all", None, None, NoCommand, NoFlow, "None", settings_data)
    /\ UNCHANGED <<scope, repo_root, regVars, bufVars, sinkVars>>

ClearAll ==
    /\ settings_data' = clear_all(settings_data).hooks
    /\ last' = Op("clear_all", None, None, NoCommand, NoFlow, "None", settings_data)
    /\ UNCHANGED <<file, scope, repo_root, regVars, bufVars, sinkVars>>

SaveHooks ==
    /\ file' = save_hooks(settings_data)
    /\ settings_data' = StripNull(settings_data)
    /\ last' = Op("save_hooks", None, None, NoCommand, NoFlow, "None", settings_data)
    /\ UNCHANGED <<scope, repo_root, regVars, bufVars, sinkVars>>

\* One command and registries of fewer than MaxHooks hooks are enough here:
\* what matters is which method is called.
DiskCommands == {FlowPing}

AddHookDisk(e, m, c, fl) ==
    /\ TotalHooks(settings_data) < MaxHooks - 1
    /\ AddHook(e, m, c, fl)

NextDisk ==
    \/ \E e \in Events, m \in MatcherArgs, c \in DiskCommands, fl \in FlowArgs :
          AddHookDisk(e, m, c, fl)
    \/ \E e \in Events, m \in MatcherArgs, c \in DiskCommands \cup {NoCommand} :
          RemoveHook(e, m, c)
    \/ \E e \in Events, m \in MatcherArgs : RemoveFlowHooks(e, m)
    \/ \E e \in Events, old \in MatcherArgs, new \in Matchers : UpdateMatcher(e, old, new)
    \/ \E e \in Events : ClearEvent(e)
    \/ ClearAll
    \/ SaveHooks

SpecDisk == InitFresh /\ [][NextDisk]_vars

----------------------------------------------------------------------------
(* Specifications of the reporters *)


InitHooks ==
    /\ settings_data = EmptyHooks /\ file = AbsentFile
    /\ scope = "USER" /\ repo_root = None
    /\ last = Op("init", None, None, NoCommand, NoFlow, "None", AbsentFile)

InitReg == InitHooks /\ InitReporters /\ InitBuffer /\ max_size = MaxSize
SpecReg == InitReg /\ [][NextReg]_vars

InitBuf == InitHooks /\ InitReporters /\ InitBuffer
SpecBuf == InitBuf /\ [][NextBuf]_vars

\* WebSocketReporter with connections coming and going while events are
\* broadcast; the buffer holds any history of up to MaxSize events.
Histories == UNION {[1..n -> ReportEvents] : n \in 0..MaxSize}

InitWsSpec ==
    /\ InitHooks /\ InitReporters
    /\ buffer \in Histories /\ max_size = MaxSize /\ lock = NoThread
    /\ tpc = [t \in Threads |-> "idle"]
    /\ targ = [t \in Threads |-> "E1"]
    /\ tret = [t \in Threads |-> NoResult]
    /\ reported = buffer /\ nreports = 0
    /\ held = [t \in Threads |-> NoList]

SpecWs == InitWsSpec /\ [][NextWs]_vars

\* HttpReporter constructed with any retry_count up to MaxRetries.
InitHttpSpec ==
    /\ InitHooks /\ InitRegistry /\ InitBuffer /\ max_size = MaxSize
    /\ InitWs /\ InitMore
    /\ \E n \in 0..MaxRetries : InitHttp(n)

SpecHttp == InitHttpSpec /\ [][NextHttp]_vars

SpecSnap == InitBuf /\ [][NextSnap]_vars

\* The server as state.py sets it up: two sinks registered (the buffer and
\* the websocket reporter), events arriving at the report ingress.
InitIngress ==
    /\ InitHooks /\ InitBuffer /\ max_size = MaxSize /\ InitSinks
    /\ reporters = <<"s1", "s2">>
    /\ rpc = "idle" /\ ridx = 0 /\ revent = Bare("E1") /\ arrived = Bare("E1")
    /\ called = <<>> /\ raisedIn = {} /\ escaped = FALSE /\ modified = FALSE
    /\ rlast = RegOp("add", "s2", <<"s1">>) /\ delivered = <<>> /\ rkept = {}

SpecIngress == InitIngress /\ [][NextIngress]_vars

\* The login wait, called any number of times in one process.
InitLoginSpec == InitHooks /\ InitReporters /\ InitBuffer /\ max_size = MaxSize

SpecLogin == InitLoginSpec /\ [][NextLogin]_vars

\* A parser constructed on a well-formed settings file with other top-level
\* settings next to "hooks", edited through the methods and saved.
SettingsTexts == UNION {[1..n -> SettingKeys \X SettingValues] : n \in 0..2}

InitSettings ==
    /\ file \in {JsonFile(EmptyHooks), NoHooksKeyFile}
    /\ settings_data = LoadSettings(file)
    /\ scope = "USER" /\ repo_root = None
    /\ last = Op("init", None, None, NoCommand, NoFlow, "None", file)
    /\ InitRegistry /\ InitBuffer /\ max_size = MaxSize
    /\ InitWs /\ InitHttp(0) /\ InitLogin /\ InitSavers(0) /\ InitServer
    /\ \E text \in SettingsTexts : InitOthers(text)

\* HookParser(path): _load_settings reads the whole document.
LoadDocument ==
    /\ settings_data' = LoadSettings(file)
    /\ others' = [others EXCEPT !.mem = LoadOthers(others.disk),
                                !.loaded = LoadOthers(others.disk)]
    /\ last' = Op("load", None, None, NoCommand, NoFlow, "None", file)
    /\ UNCHANGED <<file, scope, repo_root, regVars, bufVars, wsVars, httpVars,
                   login, savers, srv>>

\* save_hooks: the null events are deleted and the whole document is written.
SaveDocument ==
    /\ file' = save_hooks(settings_data)
    /\ settings_data' = StripNull(settings_data)
    /\ others' = [others EXCEPT !.disk = DumpOthers(others.mem)]
    /\ last' = Op("save_hooks", None, None, NoCommand, NoFlow, "None", file)
    /\ UNCHANGED <<scope, repo_root, regVars, bufVars, wsVars, httpVars,
                   login, savers, srv>>

NextSettings ==
    \/ \E e \in Events, m \in MatcherArgs, c \in DiskCommands, fl \in FlowArgs :
          AddHookDisk(e, m, c, fl)
    \/ \E e \in Events : RemoveFlowHooks(e, None)
    \/ ClearAll
    \/ LoadDocument
    \/ SaveDocument

SpecSettings == InitSettings /\ [][NextSettings]_vars

\* Two processes that load, edit and save one settings file.
InitSaversSpec ==
    /\ InitHooks /\ InitRegistry /\ InitBuffer /\ max_size = MaxSize
    /\ InitWs /\ InitHttp(0) /\ InitLogin /\ InitServer /\ InitOthers(<<>>)
    /\ \E n \in 0..MaxHooks : InitSavers(n)

SpecSavers == InitSaversSpec /\ [][NextSavers]_vars

\* The server with concurrent reports, handshakes and disconnects.
SpecServer == InitLoginSpec /\ [][NextServer]_vars

Spec == SpecEditor

----------------------------------------------------------------------------
(* Vocabulary of the claims about the hook editor *)

\* The groups a mapping holds for an event (none for a missing or null event).
EntriesOf(hooks, e) ==
    IF e \in DOMAIN hooks /\ ~hooks[e].null THEN hooks[e].entries ELSE <<>>

Owned(g) == g.flow # NoFlow
OwnedOnly(entries) == SelectSeq(entries, LAMBDA g : Owned(g))
ForeignOnly(entries) == SelectSeq(entries, LAMBDA g : ~Owned(g))

RECURSIVE CountIn(_, _)
CountIn(entries, c) ==
    IF entries = <<>> THEN 0
    ELSE Len(SelectSeq(Head(entries).hooks, LAMBDA h : h.command = c))
         + CountIn(Tail(entries), c)

\* Number of hook entries with command c in the whole mapping.
RECURSIVE CountOver(_, _, _)
CountOver(hooks, evs, c) ==
    IF evs = {} THEN 0
    ELSE LET e == CHOOSE x \in evs : TRUE
         IN CountIn(EntriesOf(hooks, e), c) + CountOver(hooks, evs \ {e}, c)
Count(hooks, c) == CountOver(hooks, DOMAIN hooks, c)

IsPrefix(s, t) == Len(s) <= Len(t) /\ SubSeq(t, 1, Len(s)) = s

AllEvents == Events \cup {OtherEvent}

\* Every event other than e holds in b what it holds in a.
SameElsewhere(a, b, e) ==
    \A x \in AllEvents \ {e} :
        /\ x \in DOMAIN a <=> x \in DOMAIN b
        /\ x \in DOMAIN a => a[x] = b[x]

----------------------------------------------------------------------------
(* C2: remove_flow_hooks(event, matcher) removes exactly the groups of the  *)
(* event that carry the "flow" block (and, for a matcher other than None,   *)
(* whose matcher equals it); the groups without the block stay, unchanged   *)
(* and in their order; it returns True iff a group was removed.             *)
C2_Targeted(g, m) == Owned(g) /\ (m = None \/ g.matcher = m)

C2_RemoveFlowHooksExact ==
    last.op = "remove_flow_hooks" =>
        LET pre == EntriesOf(last.pre, last.event)
            post == EntriesOf(settings_data, last.event)
        IN /\ post = SelectSeq(pre, LAMBDA g : ~C2_Targeted(g, last.matcher))
           /\ ForeignOnly(post) = ForeignOnly(pre)
           /\ last.ret = Bool(\E i \in 1..Len(pre) : C2_Targeted(pre[i], last.matcher))
           /\ (\A i \in 1..Len(pre) : ~Owned(pre[i])) => last.ret = "False"
           /\ SameElsewhere(last.pre, settings_data, last.event)

\* A call with a matcher that removed an owned group and left both a foreign
\* group and an owned group of another matcher behind.
C2_Witness ==
    /\ last.op = "remove_flow_hooks" /\ last.matcher # None /\ last.ret = "True"
    /\ LET post == EntriesOf(settings_data, last.event)
       IN /\ \E i \in 1..Len(post) : ~Owned(post[i]) /\ post[i].matcher = last.matcher
          /\ \E i \in 1..Len(post) : Owned(post[i])

(* C3: removeHook deletes only groups that carry ownership metadata: every  *)
(* foreign group, with all its commands, is still in the file after the     *)
(* call, and the result is True iff an owned group was removed.             *)
C3_RemoveHookOnlyOwned ==
    last.op = "removeHook" =>
        LET pre == LoadSettings(last.pre)
            post == LoadSettings(file)
        IN /\ \A e \in AllEvents :
                  ForeignOnly(EntriesOf(post, e)) = ForeignOnly(EntriesOf(pre, e))
           /\ last.ret = Bool(\E e \in AllEvents :
                  OwnedOnly(EntriesOf(post, e)) # OwnedOnly(EntriesOf(pre, e)))

(* C4: removeHook never removes a command that _is_flow_command rejects,    *)
(* for matcher None and for a pattern; when none of the targeted commands  *)
(* is a flow command it returns False and leaves the file unchanged.        *)
C4_Targets(hooks, e, m) == get_hook_details(hooks, e, m).hooks

C4_RemoveHookKeepsNonFlow ==
    last.op = "removeHook" =>
        LET pre == LoadSettings(last.pre)
            post == LoadSettings(file)
            targets == C4_Targets(pre, last.event, last.matcher)
        IN /\ \A c \in Commands : ~_is_flow_command(c) => Count(post, c) = Count(pre, c)
           /\ (\A i \in 1..Len(targets) : ~_is_flow_command(targets[i].command))
                 => last.ret = "False" /\ file = last.pre

(* C7: two setHook calls for the same (event, matcher), both with ownership *)
(* metadata, leave exactly one owned group for that event and matcher,      *)
(* holding only the second call's command.                                  *)
C7_OwnedGroups(hooks, e, m) ==
    SelectSeq(EntriesOf(hooks, e), LAMBDA g : Owned(g) /\ g.matcher = m)

C7_SetHookReplaces ==
    [][(/\ last.op = "setHook" /\ last.flow # NoFlow
        /\ last'.op = "setHook" /\ last'.flow # NoFlow
        /\ last'.event = last.event /\ last'.matcher = last.matcher)
       => LET owned == C7_OwnedGroups(LoadSettings(file'), last'.event, last'.matcher)
          IN /\ Len(owned) = 1
             /\ owned[1].hooks = <<HookObj("command", last'.command)>>]_vars

(* C8: from a registry with no group for the key (event, matcher, owned),   *)
(* two add_hook calls with the same event, matcher and ownership metadata   *)
(* yield exactly one group for that key, holding the two commands in call   *)
(* order.                                                                   *)
C8_KeyGroups(hooks, e, m, fl) ==
    SelectSeq(EntriesOf(hooks, e), LAMBDA g : g.matcher = m /\ (Owned(g) <=> fl # NoFlow))

C8_AddTwiceOneGroup ==
    [][(/\ last.op = "add_hook" /\ last.ret = "None"
        /\ C8_KeyGroups(last.pre, last.event, last.matcher, last.flow) = <<>>
        /\ last'.op = "add_hook" /\ last'.ret = "None"
        /\ last'.event = last.event /\ last'.matcher = last.matcher
        /\ last'.flow = last.flow)
       => LET groups == C8_KeyGroups(settings_data', last.event, last.matcher, last.flow)
          IN /\ Len(groups) = 1
             /\ groups[1].hooks = <<HookObj("command", last.command),
                                    HookObj("command", last'.command)>>]_vars

(* C9: add_hook for an (event, matcher) whose existing group has the other  *)
(* ownership status creates a separate group instead of appending to the    *)
(* existing one, for matcher None and for every other matcher.              *)
C9_AddSeparatesOwnership ==
    (/\ last.op = "add_hook" /\ last.ret = "None"
     /\ C8_KeyGroups(last.pre, last.event, last.matcher, last.flow) = <<>>
     /\ \E i \in 1..Len(EntriesOf(last.pre, last.event)) :
            EntriesOf(last.pre, last.event)[i].matcher = last.matcher)
    => LET pre == EntriesOf(last.pre, last.event)
           post == EntriesOf(settings_data, last.event)
       IN /\ Len(post) = Len(pre) + 1
          /\ SubSeq(post, 1, Len(pre)) = pre
          /\ post[Len(post)].matcher = last.matcher
          /\ post[Len(post)].hooks = <<HookObj("command", last.command)>>
          /\ Owned(post[Len(post)]) <=> last.flow # NoFlow

(* C10: setHook without ownership metadata is purely additive: a successful *)
(* call appends exactly one hook command and removes or replaces no command *)
(* and no group, so repeated identical calls each add one more copy.        *)
C10_GroupKept(g, h) ==
    g.matcher = h.matcher /\ g.flow = h.flow /\ IsPrefix(g.hooks, h.hooks)

C10_SetHookAdditive ==
    (last.op = "setHook" /\ last.flow = NoFlow /\ last.ret = "True") =>
        LET pre == LoadSettings(last.pre)
            post == LoadSettings(file)
        IN /\ \A e \in AllEvents :
                  LET a == EntriesOf(pre, e)
                      b == EntriesOf(post, e)
                  IN /\ Len(a) <= Len(b)
                     /\ \A i \in 1..Len(a) : C10_GroupKept(a[i], b[i])
           /\ TotalHooks(post) = TotalHooks(pre) + 1
           /\ Count(post, last.command) = Count(pre, last.command) + 1
           /\ \A c \in Commands \ {last.command} : Count(post, c) = Count(pre, c)

\* A successful call that added a further copy of a command the group for
\* the same event and matcher already held.
C10_Witness ==
    /\ last.op = "setHook" /\ last.flow = NoFlow /\ last.ret = "True"
    /\ \E i \in 1..Len(EntriesOf(LoadSettings(file), last.event)) :
          LET g == EntriesOf(LoadSettings(file), last.event)[i]
          IN /\ g.matcher = last.matcher
             /\ Len(SelectSeq(g.hooks, LAMBDA h : h.command = last.command)) >= 2

(* C11: setHook and removeHook never raise to their caller: whatever the    *)
(* scope (also PROJECT or LOCAL outside a repository), the content of the  *)
(* settings file and the outcome of the I/O, a call returns True or False. *)
C11_NeverRaise ==
    last.op \in {"setHook", "removeHook"} => last.ret \in {"True", "False"}

(* C12: loading a registry gives the empty registry when the settings file *)
(* is absent and when its content is corrupted (not JSON, not text, not a  *)
(* JSON object), and never raises on such content.                         *)
C12_CorruptKinds == {"malformed", "undecodable", "not-object"}

C12_LoadNeverRaises ==
    last.op = "load" =>
        /\ last.ret = "None"
        /\ file.kind \in {"absent"} \cup C12_CorruptKinds => settings_data = EmptyHooks

(* C13: save_hooks writes no event mapped to null, and writes every event  *)
(* whose value is not null with the value it had.                          *)
C13_SaveStripsNull ==
    last.op = "save_hooks" =>
        LET pre == last.pre.hooks
            written == LoadSettings(file)
        IN /\ file.kind = "json"
           /\ \A e \in DOMAIN file.hooks : ~file.hooks[e].null
           /\ DOMAIN written = {e \in DOMAIN pre : ~pre[e].null}
           /\ \A e \in DOMAIN written : written[e] = pre[e]

\* A save of a registry holding a null event next to an event with groups.
C13_Witness ==
    /\ last.op = "save_hooks"
    /\ \E e \in DOMAIN last.pre.hooks : last.pre.hooks[e].null
    /\ \E e \in DOMAIN file.hooks : file.hooks[e].entries # <<>>

(* C14: save, load, save writes the same document as the first save, for   *)
(* every registry (so also for those with a matcher-bearing and a          *)
(* matcher-less event).                                                    *)
C14_SaveLoadSave ==
    [][(/\ last.op = "load" /\ last.ret = "None" /\ last.pre.kind = "save_hooks"
        /\ last'.op = "save_hooks")
       => file' = file]_vars

C14_HasMatcher(text, withMatcher) ==
    \E e \in DOMAIN text : \E i \in 1..Len(text[e].entries) :
        ("matcher" \in DOMAIN text[e].entries[i]) = withMatcher

\* The second save of a save, load, save sequence on a registry with a
\* matcher-bearing and a matcher-less group.
C14_Witness ==
    /\ last.op = "save_hooks" /\ last.pre.kind = "load" /\ last.pre.before = "save_hooks"
    /\ C14_HasMatcher(file.hooks, TRUE) /\ C14_HasMatcher(file.hooks, FALSE)

(* C15: a document written by save_hooks maps no event to an empty         *)
(* sequence.                                                               *)
C15_SaveWritesNoEmpty ==
    last.op = "save_hooks" =>
        \A e \in DOMAIN file.hooks : file.hooks[e].null \/ file.hooks[e].entries # <<>>

(* C16: after any sequence of add_hook, remove_hook, remove_flow_hooks and  *)
(* clear_event calls on the empty registry, every event key maps to a      *)
(* non-empty list of groups and every group holds at least one command.    *)
C16_NoEmptyEventOrGroup ==
    \A e \in DOMAIN settings_data :
        /\ ~settings_data[e].null
        /\ settings_data[e].entries # <<>>
        /\ \A i \in 1..Len(settings_data[e].entries) :
               settings_data[e].entries[i].hooks # <<>>

\* A removal by command that emptied two groups of an event: the groups and
\* the event key are gone.
C16_Witness ==
    /\ last.op = "remove_hook" /\ last.matcher = None /\ last.ret = "True"
    /\ Len(EntriesOf(last.pre, last.event)) >= 2
    /\ last.event \notin DOMAIN settings_data

(* C17: remove_hook(event, matcher=m) deletes every group of the event     *)
(* whose matcher equals m, owned or not, leaves the groups with another    *)
(* matcher (or none) unchanged, and returns True iff a group was deleted.  *)
C17_RemoveByMatcher ==
    (last.op = "remove_hook" /\ last.matcher # None /\ last.ret # "TypeError") =>
        LET pre == EntriesOf(last.pre, last.event)
            post == EntriesOf(settings_data, last.event)
        IN /\ post = SelectSeq(pre, LAMBDA g : g.matcher # last.matcher)
           /\ last.ret = Bool(\E i \in 1..Len(pre) : pre[i].matcher = last.matcher)
           /\ SameElsewhere(last.pre, settings_data, last.event)

(* C18: remove_hook(event, command=c) without matcher deletes every hook   *)
(* with command c from every group of the event, then the groups left with *)
(* no hook, then the event key when no group is left; the other hooks stay *)
(* as they are; it returns True iff a hook was deleted.                    *)
C18_Without(g, c) ==
    [g EXCEPT !.hooks = SelectSeq(g.hooks, LAMBDA h : h.command # c)]

C19_Of(entries, m) == SelectSeq(entries, LAMBDA g : g.matcher = m)

C19_EmptyMatcherDistinct ==
    LET pre == EntriesOf(last.pre, last.event)
        post == EntriesOf(settings_data, last.event)
        other == IF last.matcher = None THEN EmptyMatcher ELSE None
    IN /\ (last.op = "add_hook" /\ last.matcher \in {None, EmptyMatcher}) =>
              /\ C19_Of(post, other) = C19_Of(pre, other)
              /\ SumLens(C19_Of(post, last.matcher)) = SumLens(C19_Of(pre, last.matcher)) + 1
       /\ (last.op = "remove_hook" /\ last.matcher = EmptyMatcher) =>
              /\ C19_Of(post, EmptyMatcher) = <<>>
              /\ C19_Of(post, None) = C19_Of(pre, None)
       /\ (last.op = "remove_flow_hooks" /\ last.matcher = EmptyMatcher) =>
              /\ OwnedOnly(C19_Of(post, EmptyMatcher)) = <<>>
              /\ C19_Of(post, None) = C19_Of(pre, None)
       /\ \A e \in DOMAIN settings_data :
              LET entries == EntriesOf(settings_data, e)
                  listed == list_matchers(settings_data, e).matchers
              IN /\ \A i \in 1..Len(entries) :
                        listed[i] = EmptyMatcher <=> entries[i].matcher = EmptyMatcher
                 /\ \A m \in {None, EmptyMatcher} :
                        LET d == get_hook_details(settings_data, e, m)
                        IN d.status = "found" <=> C19_Of(entries, m) # <<>>

(* C20: on a settings file with no hooks for event E, setHook(scope, E,    *)
(* None, c) for a flow command c followed by removeHook(scope, E, None)    *)
(* returns True and leaves no command for E in the file.                   *)
C20_NoHooksFor(f, e) == SumLens(EntriesOf(LoadSettings(f), e)) = 0

C20_SetThenRemove ==
    [][(/\ last.op = "setHook" /\ last.matcher = None /\ last.flow = NoFlow
        /\ _is_flow_command(last.command)
        /\ C20_NoHooksFor(last.pre, last.event)
        /\ last'.op = "removeHook" /\ last'.matcher = None
        /\ last'.event = last.event)
       => /\ last'.ret = "True"
          /\ C20_NoHooksFor(file', last.event)]_vars

\* The events `flow hooks set` configures.
C21_SetEvents == {SetHookCalls[i].event : i \in 1..Len(SetHookCalls)}

\* The number of hook commands a settings file holds for event e.
C21_HooksFor(f, e) == SumLens(EntriesOf(LoadSettings(f), e))

\* The groups without Flow metadata a settings file holds for event e.
C21_Foreign(f, e) == ForeignOnly(EntriesOf(LoadSettings(f), e))

\* C21: when `flow hooks clear` follows `flow hooks set` on the same scope,
\* no hook entry that `hooks set` installed remains (no event holds more hook
\* commands than before `hooks set`), and the hooks Flow did not install (the
\* groups without Flow metadata) are as they were before `hooks set`.
C21_ClearUndoesSet ==
    [][(last.op = "hooks_set" /\ last.ret # "Exit" /\ last'.op = "hooks_clear")
          => \A e \in C21_SetEvents :
                /\ C21_HooksFor(file', e) <= C21_HooksFor(last.pre, e)
                /\ C21_Foreign(file', e) = C21_Foreign(last.pre, e)]_vars

\* The methods of HookParser that edit the registry.
C30_EditOps ==
    {"add_hook", "remove_hook", "remove_flow_hooks", "update_matcher", "clear_event",
     "clear_all"}

(* C30: add_hook, remove_hook, remove_flow_hooks, update_matcher,           *)
(* clear_event and clear_all change only the registry in memory: the        *)
(* settings file is as it was after each of them, and it changes only in a  *)
(* call of save_hooks.                                                      *)
C30_OnlySaveWrites ==
    [][/\ (last' # last /\ last'.op \in C30_EditOps) => file' = file
       /\ file' # file => last'.op = "save_hooks"]_vars

\* An edit changed the registry after a save: the file still holds what was
\* saved, which is no longer what the registry holds.
C30_Witness ==
    /\ last.op \in C30_EditOps /\ last.ret = "True"
    /\ settings_data # last.pre
    /\ file = save_hooks(last.pre) /\ file # save_hooks(settings_data)

----------------------------------------------------------------------------
(* Claims about the reporters *)

(* C1: report_all calls report on every registered sink, also after sinks   *)
(* before it raised, and returns normally: no exception reaches the caller. *)
(* (Stated for a call with the registry unchanged since the call started.)  *)
C1_FanOutIsolated ==
    /\ (Running /\ ~modified) => called = SubSeq(reporters, 1, ridx)
    /\ (rpc = "done" /\ ~modified) =>
          /\ \A i \in 1..Len(reporters) : reporters[i] \in Range(called)
          /\ ~escaped

\* A finished call whose first sink raised and whose last sink was still called.
C1_Witness ==
    /\ rpc = "done" /\ ~modified /\ Len(reporters) >= 2
    /\ reporters[1] \in raisedIn
    /\ reporters[Len(reporters)] \in Range(called) \ raisedIn

(* C5: with max_size > 0, under any interleaving of report, get_recent,     *)
(* get_recent_sync, size and clear calls, no caller observes more than      *)
(* max_size buffered events.                                                *)
C5_BufferBounded ==
    /\ \A t \in Threads : tret[t].kind # "none" => tret[t].n <= max_size
    /\ lock = NoThread => Len(buffer) <= max_size

\* A caller observed a full buffer after an eviction had happened.
C5_Witness ==
    \E t \in Threads :
        /\ tret[t].kind = "size" /\ tret[t].n = max_size
        /\ Len(tret[t].then) > max_size

(* C6: after E1..En are reported in that order to a buffer with max_size k, *)
(* get_recent returns exactly the last min(n, k) of them, in report order.  *)
C6_LastOf(events, k) ==
    LET n == Len(events)
        m == IF n < k THEN n ELSE k
    IN SubSeq(events, n - m + 1, n)

C6_GetRecentLastK ==
    \A t \in Threads :
        tret[t].kind = "list" => tret[t].list = C6_LastOf(tret[t].then, max_size)

\* get_recent returned after more than max_size events had been reported.
C6_Witness ==
    \E t \in Threads :
        /\ tret[t].kind = "list" /\ max_size >= 2
        /\ Len(tret[t].then) > max_size
        /\ tret[t].list # <<>>

(* C22: registry membership is idempotent.  After any sequence of add and   *)
(* remove calls each sink is in the registry at most once; adding a sink    *)
(* that is present, or removing one that is absent, leaves the registry,    *)
(* members and order, as it was.                                            *)
C22_MembershipIdempotent ==
    /\ Cardinality(Range(reporters)) = Len(reporters)
    /\ (rlast.op = "add" /\ rlast.sink \in Range(rlast.pre)) => reporters = rlast.pre
    /\ (rlast.op = "remove" /\ rlast.sink \notin Range(rlast.pre)) => reporters = rlast.pre

\* add was called with a sink the registry of two or more sinks already held.
C22_Witness ==
    /\ rlast.op = "add" /\ rlast.sink \in Range(rlast.pre)
    /\ Len(rlast.pre) >= 2 /\ reporters = rlast.pre

(* C23: report_all calls the sinks in registration order, each exactly once *)
(* per event, when the registry is not modified during the call.  The       *)
(* registry holds the sinks in the order of their registration: add puts a  *)
(* new sink last and remove keeps the order of the others.                  *)
C23_InRegistrationOrder ==
    /\ (rlast.op = "add" /\ rlast.sink \notin Range(rlast.pre)) =>
          reporters = Append(rlast.pre, rlast.sink)
    /\ rlast.op = "remove" => reporters = SelectSeq(rlast.pre, LAMBDA x : x # rlast.sink)
    /\ (Running /\ ~modified) => IsPrefix(called, reporters)
    /\ (rpc = "done" /\ ~modified) => called = reporters

\* A finished call on three sinks registered in another order than that of
\* their names.
C23_Witness ==
    /\ rpc = "done" /\ ~modified
    /\ Len(reporters) = 3 /\ reporters[1] = "s2" /\ called = reporters

(* C24: WebSocketReporter.report attempts to send the hook_output envelope  *)
(* of the event to every connection in the active set (every connection    *)
(* that is in the set from the start of the pass to its end); after the     *)
(* pass exactly the connections whose send failed have been removed and     *)
(* those whose send succeeded are still in the set; a failed send prevents  *)
(* no other send and no exception leaves report.                            *)
C24_Sent(c) ==
    \E i \in 1..Len(attempted) : attempted[i] = [to |-> c, envelope |-> HookOutput(wevent)]

C24_BroadcastPass ==
    [][(wpc = "sending" /\ wpc' = "done") =>
          /\ \A c \in Range(wstart) \cap Range(connections) : C24_Sent(c)
          /\ connections' = SelectSeq(connections, LAMBDA c : c \notin wfailed)
          /\ \A c \in Range(connections) \ wfailed : c \in Range(connections')
          /\ ~wraised']_vars

(* C25 as claimed: on every handshake (the handler past send_initial), for  *)
(* every buffer content, send_initial has pushed exactly one envelope of    *)
(* type "initial" carrying the buffered history to the connection.          *)
C25_InitialAlways ==
    \A c \in Conns : hs[c] = "open" => initials[c] = <<Initial(buffer)>>

(* C25, amended: on every handshake send_initial pushes exactly one         *)
(* envelope of type "initial" carrying the buffered history when the buffer *)
(* holds at least one event, and no envelope when the buffer is empty.      *)
C25_InitialWhenHistory ==
    \A c \in Conns :
        hs[c] = "open" =>
            /\ hist[c] = buffer
            /\ buffer # <<>> => initials[c] = <<Initial(buffer)>>
            /\ buffer = <<>> => initials[c] = <<>>

\* A connection past its handshake that was sent a history of two events.
C25_Witness ==
    \E c \in Conns :
        /\ hs[c] = "open" /\ Len(buffer) >= 2
        /\ initials[c] = <<Initial(buffer)>>

(* C26: with retry count n, HttpReporter.report makes at most n + 1         *)
(* attempts, exactly n + 1 when every attempt fails, and none after the     *)
(* first 2xx response.                                                      *)
C26_AttemptsBounded ==
    /\ Len(hlog) <= retry_count + 1
    /\ \A i \in 1..(Len(hlog) - 1) : ~Is2xx(hlog[i])
    /\ (hpc = "done" /\ \A i \in 1..Len(hlog) : ~Is2xx(hlog[i])) =>
          Len(hlog) = retry_count + 1

\* A call with two retries allowed that returned after its second attempt,
\* the first 2xx response.
C26_Witness ==
    /\ hpc = "done" /\ retry_count = 2
    /\ Len(hlog) = 2 /\ ~Is2xx(hlog[1]) /\ Is2xx(hlog[2])

(* C27: HttpReporter.report never raises: a non-2xx response, a timeout, a  *)
(* connection error or any other exception while posting ends in a normal  *)
(* return.                                                                  *)
C27_NeverRaises ==
    /\ ~hraised
    /\ hpc = "done" => (Len(hlog) = retry_count + 1 \/ Is2xx(hlog[Len(hlog)]))

\* A returned call whose attempts met a timeout, a connection error and
\* another exception.
C27_Witness ==
    /\ hpc = "done" /\ ~hraised
    /\ {hlog[i].kind : i \in 1..Len(hlog)} = {"TimeoutError", "ClientError", "Exception"}

(* C28: get_recent and get_recent_sync return a snapshot copy.  Later       *)
(* report and clear calls on the buffer do not change the items of a list   *)
(* that was returned, and a caller changing the list it was returned does   *)
(* not change the buffer.                                                   *)
C28_SnapshotCopy ==
    [][\A t \in Threads :
          /\ (tret[t].kind = "list" /\ tret'[t].kind = "list" /\ held'[t] = held[t]) =>
                Deref(held'[t], buffer') = Deref(held[t], buffer)
          /\ held'[t] # held[t] => buffer' = buffer]_vars

\* A caller holds the non-empty list it was returned, unchanged, after the
\* buffer was cleared.
C28_Witness ==
    \E t \in Threads :
        /\ tret[t].kind = "list" /\ tret[t].list # <<>>
        /\ Deref(held[t], buffer) = tret[t].list
        /\ buffer = <<>> /\ reported = <<>>

(* C29: the report ingress adds a timestamp only when the event has none.   *)
(* Every event handed to report_all carries a timestamp and is otherwise    *)
(* the event that arrived; an event that arrived with a timestamp reaches   *)
(* every sink with that timestamp unchanged.                                *)
C29_TimestampOnlyWhenAbsent ==
    rpc # "idle" =>
        /\ TimestampKey \in DOMAIN revent
        /\ \A k \in DOMAIN arrived : revent[k] = arrived[k]
        /\ DOMAIN revent = DOMAIN arrived \cup {TimestampKey}
        /\ \A i \in 1..Len(delivered) :
              /\ TimestampKey \in DOMAIN delivered[i]
              /\ TimestampKey \in DOMAIN arrived =>
                    delivered[i][TimestampKey] = arrived[TimestampKey]

\* An event that arrived with a timestamp was passed to both sinks.
C29_Witness ==
    /\ rpc = "done" /\ ~modified /\ Len(delivered) >= 2
    /\ TimestampKey \in DOMAIN arrived
    /\ \A i \in 1..Len(delivered) : delivered[i][TimestampKey] = arrived[TimestampKey]

(* C31: wait_for_post_login blocks until the login flag is set or the       *)
(* timeout elapses.  When the flag is set first it returns the login result *)
(* the post_login handler recorded, never the reset value None; when the    *)
(* timeout elapses first it returns the failure result with error           *)
(* "Timeout".                                                               *)
C31_WaitReturnsRecorded ==
    login.wpos = "returned" =>
        /\ login.wret.via = "flag" => login.wret.value \in LoginResults
        /\ login.wret.via = "timeout" => login.wret.value = TimeoutResult

(* C32: for two interleaved load-mutate-save sequences on the same settings *)
(* file, the content of the file after both have finished is exactly the    *)
(* full document written by the save that ran last, never a merge or a      *)
(* mixture of the two documents.                                            *)
C32_LastWriterWins ==
    ((\A p \in Procs : savers.pos[p] = "idle") /\ savers.lastw # None) =>
        savers.disk = savers.lastw

(* C33: over any sequence of add_hook and remove_flow_hooks calls, a        *)
(* command added without ownership metadata is never deleted by             *)
(* remove_flow_hooks: each call leaves every command of the groups without  *)
(* the "flow" block in a group without it, a command added without          *)
(* metadata goes to such a group, and a command added with metadata goes to *)
(* a group that carries the block, so that the two kinds never share a      *)
(* group and a group created without metadata never acquires the block.     *)
C33_In(hooks, e, owned, c) ==
    CountIn(IF owned THEN OwnedOnly(EntriesOf(hooks, e))
            ELSE ForeignOnly(EntriesOf(hooks, e)), c)

C33_Added(owned, c) ==
    IF last.op = "add_hook" /\ c = last.command /\ (last.flow # NoFlow) = owned
    THEN 1 ELSE 0

C33_ForeignNeverDeleted ==
    (last.op \in {"add_hook", "remove_flow_hooks"} /\ last.ret # "TypeError") =>
        \A c \in Commands :
            /\ C33_In(settings_data, last.event, FALSE, c)
                   = C33_In(last.pre, last.event, FALSE, c) + C33_Added(FALSE, c)
            /\ last.op = "add_hook" =>
                   C33_In(settings_data, last.event, TRUE, c)
                       = C33_In(last.pre, last.event, TRUE, c) + C33_Added(TRUE, c)

(* C36: a sink that is registered for the whole duration of a report_all    *)
(* call receives the event exactly once, also when other sinks are added or *)
(* removed while report_all is suspended inside a sink.                     *)
C36_KeptSinkOnce ==
    (rpc = "done" /\ ~escaped) =>
        \A s \in rkept : Len(SelectSeq(called, LAMBDA x : x = s)) = 1

(* C38: with the default registry, the ring buffer before the broadcast     *)
(* sink, the events appear in the ring buffer in the order in which their   *)
(* report_all invocations started, under any interleaving of concurrent     *)
(* report_all calls that suspend in the broadcast sink.                     *)
C38_BufferInStartOrder ==
    \A i, j \in 1..Len(srv.buf) : i < j => srv.buf[i] < srv.buf[j]

\* Two events are buffered while the call that reported the first one is
\* still suspended in a send of the broadcast sink.
C38_Witness ==
    /\ Len(srv.buf) = 2
    /\ \E k \in Calls : srv.call[k].pos = "ws-send" /\ srv.call[k].event = srv.buf[1]

(* C34: no event is delivered twice to a streaming client: for a connection *)
(* whose handshake interleaves with report_all calls in progress, no event  *)
(* is both in its initial replay envelope and sent to it as a live          *)
(* hook_output message.                                                     *)
C34_InInitial(c, e) ==
    \E i \in 1..Len(srv.hs[c].got) :
        /\ srv.hs[c].got[i].type = "initial"
        /\ e \in Range(srv.hs[c].got[i].outputs)

C34_SentLive(c, e) == HookOutput(e) \in Range(srv.hs[c].got)

C34_NoDuplicate ==
    \A c \in Conns, e \in 1..MaxEvents : ~(C34_InInitial(c, e) /\ C34_SentLive(c, e))

(* C35: no event is lost between the replay and the live stream: for a      *)
(* connection that stays open and whose sends succeed, every event in the   *)
(* ring buffer at the handshake's snapshot is in its initial envelope, and   *)
(* every event whose report_all starts after that snapshot is sent to it     *)
(* live, under any interleaving.                                             *)
C35_NoLoss ==
    \A c \in Conns :
        (srv.hs[c].pos = "open" /\ c \notin srv.failed) =>
            /\ \A e \in Range(srv.hs[c].snap) : C34_InInitial(c, e)
            /\ \A e \in srv.done : e >= srv.hs[c].mark => C34_SentLive(c, e)

(* C37: a connection that is in the active set for the whole duration of a  *)
(* WebSocketReporter.report call is sent the event exactly once, also when   *)
(* other connections are added or removed, by handshakes, disconnects or    *)
(* the failure cleanup of another report call, while report is suspended in *)
(* a send.                                                                  *)
C37_KeptConnectionOnce ==
    \A k \in Calls :
        srv.call[k].pos = "done" =>
            \A c \in srv.call[k].kept :
                Len(SelectSeq(srv.call[k].sentTo, LAMBDA x : x = c)) = 1

(* C39: save_hooks preserves every top-level key other than "hooks": after  *)
(* a well-formed settings file is loaded, any sequence of editor operations *)
(* and a save leaves all non-hook settings in the file with the values they *)
(* had when the file was loaded.                                            *)
C39_OtherSettingsKept ==
    last.op = "save_hooks" =>
        LoadOthers(others.disk).value = others.loaded.value

\* A save that changed the hooks in a file that holds two other settings of
\* different values.
C39_Witness ==
    /\ last.op = "save_hooks" /\ file # last.pre
    /\ DOMAIN others.loaded.value = SettingKeys
    /\ others.loaded.value["model"] # others.loaded.value["env"]

(* C40: whenever setHook or removeHook returns False, the content of the    *)
(* settings file is exactly what it was before the call: a failed set or    *)
(* remove has no partial effect on disk, also when the failure occurs while *)
(* the document is being written.                                           *)
C40_FailureLeavesFile ==
    (last.op \in {"setHook", "removeHook"} /\ last.ret = "False") => file = last.pre

====
